---------------------------- MODULE Spec2Model ----------------------------
(***************************************************************************)
(* State-machine model of the batch action handlers of                     *)
(* UIVirtualBoxManager (src/VBox/Frontends/VirtualBox/src/manager/         *)
(* UIVirtualBoxManager.cpp): per-item enablement filtering, the batch       *)
(* confirmation, per-machine session acquire / operate / release, and the   *)
(* notifications processed while a handler waits in a modal dialog.         *)
(***************************************************************************)
EXTENDS Integers, Sequences, FiniteSets, TLC

(***************************************************************************)
(* Bounds of the model.                                                     *)
(***************************************************************************)
\* Number of machines the registry lists; a selection is a prefix 1..k.
NumMachines == 3
\* Largest selection the session-holding batch handlers are run on.
MaxBatch == 2
\* Machines whose remote side fails during one sweep of the evaluator's probe.
MaxFaults == 1
\* State-change notifications processed inside one handler run (nested loop).
MaxNotify == 1
\* Modal sub-flows (wizards, dialogs) nested inside one another at one time.
MaxNest == 2
\* FileOpen events handled while a modal sub-flow is open.
MaxUrlCalls == 1

\* Log viewer dialogs ever created.
MaxDialogs == 3

\* Machine files that can be opened; file f holds the machine with id f.
MaxFiles == 1

Machines == 1 .. NumMachines

DialogIds == 1 .. MaxDialogs

\* The tools that also exist as a separate window.
ManagerTools == {"Media", "Network", "Cloud"}

\* A machine file handed to sltOpenAddMachineDialog: 0 cannot be opened.
MachineFiles == 0 .. MaxFiles

VARIABLES
    rec,          \* machine id -> machine record (the item's cached snapshot)
    items,        \* currentItems(): the selection, in selection order
    groupSaving,  \* m_pWidget->isGroupSavingInProgress()
    toolOk,       \* currentMachineTool() != Snapshots \/ isCurrentStateItemSelected()
    held,         \* session handles the manager currently holds locked
    pc,           \* position of the GUI control flow
    act,          \* the handler that is running
    todo,         \* items the running loop still has to visit
    cur,          \* machine whose session is open across a modal dialog (0: none)
    elig,         \* history: items found individually eligible when the filter looked
    log,          \* history: events of the running handler, in order
    opened,       \* action -> its "opened" property (the lock against cascade calls)
    flags,        \* action -> isEnabled(), as set by the latest updateActionsAppearance
    checked,      \* isChecked() of the Pause/Resume toggle
    m_logViewers, \* machine -> its log viewer dialog (0: none)
    dialogs,      \* history: log viewer dialog -> its machine, the times cleaned up
    toolOpened,   \* the tools the widget has opened the embedded way
    m_pManager,   \* manager -> its separate window exists (the pointer is set)
    live,         \* history: manager -> its window instances that exist
    registered,   \* the ids, among those of the machine files, that are registered
    flows         \* the modal sub-flows in progress, outermost first

vars == <<rec, items, groupSaving, toolOk, held, pc, act, todo, cur, elig, log,
          opened, flags, checked, flows,
          m_logViewers, dialogs, toolOpened, m_pManager, live, registered>>

\* The dialogs and windows of the manager that are not modal.
wins == <<m_logViewers, dialogs, toolOpened, m_pManager, live>>

\* The actions that are enabled whatever the selection is.
GlobalActions == {"Preferences", "ExportAppliance", "ImportAppliance", "AddMachine"}

\* The actions that need a selection.
MachineActions ==
    {"Settings", "Clone", "Move", "ExportToOCI", "Remove", "SortParent",
     "StartOrShow", "Discard", "ShowLogDialog", "Pause", "Reset",
     "ShowInFileManager", "CreateShortcut", "Close", "Detach", "SaveState",
     "Shutdown", "PowerOff"}

Actions == GlobalActions \cup MachineActions

\* The actions that carry the "opened" property.
OpenedActions == GlobalActions \cup {"Settings", "ExportToOCI"}

(***************************************************************************)
(* Machine records (UIVirtualMachineItem) and their classification.        *)
(***************************************************************************)
MkRec(s, a, e, c, g) ==
    [state |-> s, accessible |-> a, editable |-> e, canSwitchTo |-> c, acpi |-> g]

\* Records the handlers are exercised with.
ItemRecords ==
    { MkRec("Inaccessible", FALSE, FALSE, FALSE, FALSE),
      MkRec("PoweredOff",   TRUE,  TRUE,  FALSE, FALSE),
      MkRec("PoweredOff",   TRUE,  FALSE, FALSE, FALSE),
      MkRec("Saved",        TRUE,  TRUE,  FALSE, FALSE),
      MkRec("Saved",        TRUE,  FALSE, FALSE, FALSE),
      MkRec("Running",      TRUE,  FALSE, TRUE,  TRUE),
      MkRec("Running",      TRUE,  FALSE, FALSE, FALSE),
      MkRec("Paused",       TRUE,  FALSE, TRUE,  FALSE) }

DefaultRec == MkRec("PoweredOff", TRUE, TRUE, FALSE, FALSE)

isItemRunning(it) ==
    it.accessible /\ it.state \in {"Running", "Teleporting", "LiveSnapshotting"}

isItemPaused(it) ==
    it.accessible /\ it.state \in {"Paused", "TeleportingPausedVM"}

isItemStarted(it) ==
    it.accessible /\ it.state \notin {"PoweredOff", "Saved", "Aborted", "Inaccessible"}

isItemPoweredOff(it) ==
    it.accessible /\ it.state \in {"PoweredOff", "Saved", "Aborted"}

isItemSaved(it) ==
    it.accessible /\ it.state = "Saved"

isItemEditable(it) ==
    it.accessible /\ it.editable

\* The settings of a machine that is accessible can be opened, fully or in part.
configurationAccessLevel(it) ==
    IF ~it.accessible THEN "Null"
    ELSE IF it.editable THEN "Full"
    ELSE "Partial"

\* A running instance is headless exactly when it has no UI to switch to; the
\* record carries the disjunction canSwitchTo() || isItemRunningHeadless().
isItemShowable(it) ==
    it.canSwitchTo

(***************************************************************************)
(* Session manager (VBoxGlobal::openSession / openExistingSession,         *)
(* CSession::UnlockMachine).                                                *)
(***************************************************************************)
Handle(m, who) == [m |-> m, who |-> who]

HeldFor(h, m) == {s \in h : s.m = m}

\* Mutant: a session already held for the machine does not refuse a second one.
OpenOutcomes_IgnoreHeld(h, r, m, mode) ==
    IF ~r[m].accessible THEN {"MachineInaccessible"}
    ELSE IF mode = "Write" /\ ~r[m].editable THEN {"SessionBusy"}
    ELSE IF mode = "Existing" /\ ~isItemStarted(r[m]) THEN {"RemoteError"}
    ELSE {"ok", "RemoteError"}

\* The results acquire(machineId, mode) can have in the given state.
OpenOutcomes(h, r, m, mode) ==
    IF HeldFor(h, m) # {} THEN {"SessionBusy"}
    ELSE IF ~r[m].accessible THEN {"MachineInaccessible"}
    ELSE IF mode = "Write" /\ ~r[m].editable THEN {"SessionBusy"}
    ELSE IF mode = "Existing" /\ ~isItemStarted(r[m]) THEN {"RemoteError"}
    ELSE {"ok", "RemoteError"}

Acquire(h, m, who, res) == IF res = "ok" THEN h \cup {Handle(m, who)} ELSE h

\* A release that treats a session that is not held as an error and drops
\* every session.
UnlockMachine_ResetOnUnknown(h, m, who) ==
    IF Handle(m, who) \in h THEN h \ {Handle(m, who)} ELSE {}

UnlockMachine(h, m, who) == h \ {Handle(m, who)}

(***************************************************************************)
(* Events of the history variable log.                                      *)
(***************************************************************************)
Ev(k, m, x) == [k |-> k, m |-> m, x |-> x]

AcqEv(h, r, m, who, mode, res) ==
    [k |-> "acquire", m |-> m, x |-> res, who |-> who,
     own |-> (HeldFor(h, m) # {}),
     ext |-> (r[m].accessible /\ mode = "Write" /\ ~r[m].editable)]

ConfirmEv(names, answer) == [k |-> "confirm", m |-> 0, x |-> answer, names |-> names]

RelEv(m, who) == [k |-> "release", m |-> m, x |-> "-", who |-> who]

(***************************************************************************)
(* Enablement evaluator.                                                    *)
(***************************************************************************)
\* What the remote side answers to the evaluator's probe of each machine.
ProbeEnvs ==
    {e \in [Machines -> {"ok", "nosess", "nocons"}] :
        Cardinality({m \in Machines : e[m] # "ok"}) <= MaxFaults}

\* The result the probe's openExistingSession gets.
ProbeOpen(h, r, m, env) ==
    LET outs == OpenOutcomes(h, r, m, "Existing")
    IN  IF "ok" \notin outs THEN CHOOSE o \in outs : TRUE
        ELSE IF env[m] = "nosess" THEN "RemoteError"
        ELSE "ok"

RECURSIVE ProbeShutdown_KeepOnNullConsole(_, _, _, _)
\* isAtLeastOneItemAbleToShutdown leaving the session locked when the
\* console is missing.
ProbeShutdown_KeepOnNullConsole(its, h, r, env) ==
    IF its = <<>> THEN [able |-> FALSE, held |-> h, ev |-> <<>>]
    ELSE
      LET m == Head(its)
      IN  IF ~isItemRunning(r[m]) THEN ProbeShutdown_KeepOnNullConsole(Tail(its), h, r, env)
          ELSE
            LET res == ProbeOpen(h, r, m, env)
                e   == AcqEv(h, r, m, "probe", "Existing", res)
            IN  IF res # "ok"
                THEN LET rest == ProbeShutdown_KeepOnNullConsole(Tail(its), h, r, env)
                     IN  [rest EXCEPT !.ev = <<e>> \o @]
                ELSE
                  LET h1 == Acquire(h, m, "probe", res)
                      h2 == UnlockMachine(h1, m, "probe")
                      evs == <<e, RelEv(m, "probe")>>
                  IN  IF env[m] = "nocons"
                      THEN LET rest == ProbeShutdown_KeepOnNullConsole(Tail(its), h1, r, env)
                           IN  [rest EXCEPT !.ev = <<e>> \o @]
                      ELSE IF r[m].acpi
                      THEN [able |-> TRUE, held |-> h2, ev |-> evs]
                      ELSE LET rest == ProbeShutdown_KeepOnNullConsole(Tail(its), h2, r, env)
                           IN  [rest EXCEPT !.ev = evs \o @]

RECURSIVE ProbeShutdown(_, _, _, _)
\* isAtLeastOneItemAbleToShutdown: the answer, the sessions held afterwards
\* and the session events of the probe.
ProbeShutdown(its, h, r, env) ==
    IF its = <<>> THEN [able |-> FALSE, held |-> h, ev |-> <<>>]
    ELSE
      LET m == Head(its)
      IN  IF ~isItemRunning(r[m]) THEN ProbeShutdown(Tail(its), h, r, env)
          ELSE
            LET res == ProbeOpen(h, r, m, env)
                e   == AcqEv(h, r, m, "probe", "Existing", res)
            IN  IF res # "ok"
                THEN LET rest == ProbeShutdown(Tail(its), h, r, env)
                     IN  [rest EXCEPT !.ev = <<e>> \o @]
                ELSE
                  LET h1 == Acquire(h, m, "probe", res)
                      h2 == UnlockMachine(h1, m, "probe")
                      evs == <<e, RelEv(m, "probe")>>
                  IN  IF env[m] = "nocons"
                      THEN LET rest == ProbeShutdown(Tail(its), h2, r, env)
                           IN  [rest EXCEPT !.ev = evs \o @]
                      ELSE IF r[m].acpi
                      THEN [able |-> TRUE, held |-> h2, ev |-> evs]
                      ELSE LET rest == ProbeShutdown(Tail(its), h2, r, env)
                           IN  [rest EXCEPT !.ev = evs \o @]

\* isAtLeastOneItemAbleToShutdown answering from the cached state alone.
isAtLeastOneItemAbleToShutdown_AnyRunning(its, h, r, env) ==
    \E i \in 1 .. Len(its) : isItemRunning(r[its[i]])

isAtLeastOneItemAbleToShutdown(its, h, r, env) == ProbeShutdown(its, h, r, env).able

\* isAtLeastOneItemStarted looking at the first item only.
isAtLeastOneItemStarted_FirstOnly(its, r) ==
    its # <<>> /\ isItemStarted(r[Head(its)])

isAtLeastOneItemStarted(its, r) ==
    \E i \in 1 .. Len(its) : isItemStarted(r[its[i]])

\* isAtLeastOneItemRunning taking any started item as running.
isAtLeastOneItemRunning_AnyStarted(its, r) ==
    \E i \in 1 .. Len(its) : isItemStarted(r[its[i]])

isAtLeastOneItemRunning(its, r) ==
    \E i \in 1 .. Len(its) : isItemRunning(r[its[i]])

isAtLeastOneItemAccessible(its, r) ==
    \E i \in 1 .. Len(its) : r[its[i]].accessible

\* The settings file of every machine here is a .vbox file, which is all
\* the Mac OS X build asks for besides accessible().
isAtLeastOneItemSupportsShortcuts(its, r) ==
    \E i \in 1 .. Len(its) : r[its[i]].accessible

\* isAtLeastOneItemRemovable passing over the inaccessible items.
isAtLeastOneItemRemovable_EditableOnly(its, r) ==
    \E i \in 1 .. Len(its) : isItemEditable(r[its[i]])

isAtLeastOneItemRemovable(its, r) ==
    \E i \in 1 .. Len(its) : ~r[its[i]].accessible \/ isItemEditable(r[its[i]])

\* isAtLeastOneItemDiscardable taking any saved item as discardable.
isAtLeastOneItemDiscardable_AnySaved(its, r) ==
    \E i \in 1 .. Len(its) : isItemSaved(r[its[i]])

isAtLeastOneItemDiscardable(its, r) ==
    \E i \in 1 .. Len(its) : isItemSaved(r[its[i]]) /\ isItemEditable(r[its[i]])

isAtLeastOneItemCanBeStarted(its, r) ==
    \E i \in 1 .. Len(its) : isItemPoweredOff(r[its[i]]) /\ isItemEditable(r[its[i]])

isAtLeastOneItemCanBeShown(its, r) ==
    \E i \in 1 .. Len(its) : isItemStarted(r[its[i]]) /\ isItemShowable(r[its[i]])

\* isAtLeastOneItemCanBeStartedOrShown taking any powered off item as startable.
isAtLeastOneItemCanBeStartedOrShown_AnyPoweredOff(its, r) ==
    \E i \in 1 .. Len(its) :
        \/ isItemPoweredOff(r[its[i]])
        \/ isItemStarted(r[its[i]]) /\ isItemShowable(r[its[i]])

isAtLeastOneItemCanBeStartedOrShown(its, r) ==
    \E i \in 1 .. Len(its) :
        \/ isItemPoweredOff(r[its[i]]) /\ isItemEditable(r[its[i]])
        \/ isItemStarted(r[its[i]]) /\ isItemShowable(r[its[i]])

\* isActionEnabled without the early return for an empty item list.
isActionEnabled_NoEmptyCheck(a, its, h, r, env) ==
    IF a \in GlobalActions THEN ~opened[a]
    ELSE CASE a = "Settings" ->
                /\ ~opened[a]
                /\ ~groupSaving
                /\ Len(its) = 1
                /\ configurationAccessLevel(r[Head(its)]) # "Null"
                /\ toolOk
           [] a \in {"Clone", "Move"} ->
                ~groupSaving /\ Len(its) = 1 /\ isItemEditable(r[Head(its)])
           [] a = "ExportToOCI" -> ~opened[a] /\ Len(its) = 1
           [] a = "Remove" -> ~groupSaving /\ isAtLeastOneItemRemovable(its, r)
           [] a = "SortParent" -> ~groupSaving
           [] a = "StartOrShow" ->
                ~groupSaving /\ isAtLeastOneItemCanBeStartedOrShown(its, r) /\ toolOk
           [] a = "Discard" ->
                ~groupSaving /\ isAtLeastOneItemDiscardable(its, r) /\ toolOk
           [] a \in {"ShowLogDialog", "ShowInFileManager"} ->
                isAtLeastOneItemAccessible(its, r)
           [] a = "Pause" -> isAtLeastOneItemStarted(its, r)
           [] a = "Reset" -> isAtLeastOneItemRunning(its, r)
           [] a = "CreateShortcut" -> isAtLeastOneItemSupportsShortcuts(its, r)
           [] a \in {"Close", "Detach", "SaveState", "PowerOff"} ->
                isAtLeastOneItemStarted(its, r)
           [] a = "Shutdown" ->
                isAtLeastOneItemStarted(its, r)
                /\ isAtLeastOneItemAbleToShutdown(its, h, r, env)
           [] OTHER -> FALSE

\* isActionEnabled judging Settings, Clone and Move by the first item of a
\* selection of any size.
isActionEnabled_AnySelectionSize(a, its, h, r, env) ==
    IF a \in GlobalActions THEN ~opened[a]
    ELSE IF its = <<>> THEN FALSE
    ELSE CASE a = "Settings" ->
                /\ ~opened[a]
                /\ ~groupSaving
                /\ configurationAccessLevel(r[Head(its)]) # "Null"
                /\ toolOk
           [] a \in {"Clone", "Move"} ->
                ~groupSaving /\ isItemEditable(r[Head(its)])
           [] a = "ExportToOCI" -> ~opened[a] /\ Len(its) = 1
           [] a = "Remove" -> ~groupSaving /\ isAtLeastOneItemRemovable(its, r)
           [] a = "SortParent" -> ~groupSaving
           [] a = "StartOrShow" ->
                ~groupSaving /\ isAtLeastOneItemCanBeStartedOrShown(its, r) /\ toolOk
           [] a = "Discard" ->
                ~groupSaving /\ isAtLeastOneItemDiscardable(its, r) /\ toolOk
           [] a \in {"ShowLogDialog", "ShowInFileManager"} ->
                isAtLeastOneItemAccessible(its, r)
           [] a = "Pause" -> isAtLeastOneItemStarted(its, r)
           [] a = "Reset" -> isAtLeastOneItemRunning(its, r)
           [] a = "CreateShortcut" -> isAtLeastOneItemSupportsShortcuts(its, r)
           [] a \in {"Close", "Detach", "SaveState", "PowerOff"} ->
                isAtLeastOneItemStarted(its, r)
           [] a = "Shutdown" ->
                isAtLeastOneItemStarted(its, r)
                /\ isAtLeastOneItemAbleToShutdown(its, h, r, env)
           [] OTHER -> FALSE

\* isActionEnabled: the global actions first, then nothing for an empty item
\* list, then the machine actions by the selected items.
isActionEnabled(a, its, h, r, env) ==
    IF a \in GlobalActions THEN ~opened[a]
    ELSE IF its = <<>> THEN FALSE
    ELSE CASE a = "Settings" ->
                /\ ~opened[a]
                /\ ~groupSaving
                /\ Len(its) = 1
                /\ configurationAccessLevel(r[Head(its)]) # "Null"
                /\ toolOk
           [] a \in {"Clone", "Move"} ->
                ~groupSaving /\ Len(its) = 1 /\ isItemEditable(r[Head(its)])
           [] a = "ExportToOCI" -> ~opened[a] /\ Len(its) = 1
           [] a = "Remove" -> ~groupSaving /\ isAtLeastOneItemRemovable(its, r)
           [] a = "SortParent" -> ~groupSaving
           [] a = "StartOrShow" ->
                ~groupSaving /\ isAtLeastOneItemCanBeStartedOrShown(its, r) /\ toolOk
           [] a = "Discard" ->
                ~groupSaving /\ isAtLeastOneItemDiscardable(its, r) /\ toolOk
           [] a \in {"ShowLogDialog", "ShowInFileManager"} ->
                isAtLeastOneItemAccessible(its, r)
           [] a = "Pause" -> isAtLeastOneItemStarted(its, r)
           [] a = "Reset" -> isAtLeastOneItemRunning(its, r)
           [] a = "CreateShortcut" -> isAtLeastOneItemSupportsShortcuts(its, r)
           [] a \in {"Close", "Detach", "SaveState", "PowerOff"} ->
                isAtLeastOneItemStarted(its, r)
           [] a = "Shutdown" ->
                isAtLeastOneItemStarted(its, r)
                /\ isAtLeastOneItemAbleToShutdown(its, h, r, env)
           [] OTHER -> FALSE

\* The session events one isActionEnabled call leaves behind.
EnabledEvents(a, its, h, r, env) ==
    IF a = "Shutdown" /\ its # <<>> /\ isAtLeastOneItemStarted(its, r)
    THEN ProbeShutdown(its, h, r, env).ev
    ELSE <<>>

\* The sessions held after one isActionEnabled call.
EnabledHeld(a, its, h, r, env) ==
    IF a = "Shutdown" /\ its # <<>> /\ isAtLeastOneItemStarted(its, r)
    THEN ProbeShutdown(its, h, r, env).held
    ELSE h

\* updateActionsAppearance: the evaluator is asked about every action; the
\* group and the machine Shutdown entries each probe through sessions.
updateActionsAppearanceEvents(its, h, r, env) ==
    LET e1 == EnabledEvents("Shutdown", its, h, r, env)
        h1 == EnabledHeld("Shutdown", its, h, r, env)
    IN  e1 \o EnabledEvents("Shutdown", its, h1, r, env)

updateActionsAppearanceHeld(its, h, r, env) ==
    EnabledHeld("Shutdown", its, EnabledHeld("Shutdown", its, h, r, env), r, env)

\* pFirstStartedAction taken from the end of the selection: the position of
\* the last started item.
pFirstStartedAction_LastStarted(its, r) ==
    LET started == {i \in 1 .. Len(its) : isItemStarted(r[its[i]])}
    IN  IF started = {} THEN 0
        ELSE CHOOSE i \in started : \A j \in started : j <= i

\* updateActionsAppearance: the position in the selection of the first
\* started item, 0 when no selected item is started.
pFirstStartedAction(its, r) ==
    LET started == {i \in 1 .. Len(its) : isItemStarted(r[its[i]])}
    IN  IF started = {} THEN 0
        ELSE CHOOSE i \in started : \A j \in started : i <= j

\* updateActionsAppearance: the value passed to setChecked of the
\* Pause/Resume toggle, with the toggle's signals blocked.
PauseToggleChecked(its, r) ==
    LET first == pFirstStartedAction(its, r)
    IN  first # 0 /\ isItemPaused(r[its[first]])

\* updateActionsAppearance: the value every action flag is set to.
Refreshed(env) == [a \in Actions |-> isActionEnabled(a, items, held, rec, env)]

(***************************************************************************)
(* Per-item bodies of the batch handlers.  Each yields the events of one    *)
(* item, the sessions held afterwards and how the loop goes on: "continue"  *)
(* with the next item, "return" from the handler, or "progress" (a modal    *)
(* progress dialog is shown while the session stays open).                  *)
(***************************************************************************)
Out(ev, h, next) == [ev |-> ev, held |-> h, next |-> next]

OpEv(m, name, ok) == [k |-> "op", m |-> m, x |-> name, ok |-> ok]

ReportEv(m, what) == [k |-> "report", m |-> m, x |-> what]

\* The result codes a finished progress can carry: 0, or an error code.
ResultCodes == {0, 1}

\* The modal progress dialog of operation name on m has ended: what
\* comProgress.isOk() and comProgress.GetResultCode() give.
ProgressEv(m, name, isOk, rc) ==
    [k |-> "progress", m |-> m, x |-> name, isOk |-> isOk, rc |-> rc]

\* if (!comProgress.isOk() || comProgress.GetResultCode() != 0)
ProgressFailed(isOk, rc) == ~isOk \/ rc # 0

\* The handler's session on m is opened: the event and the sessions held.
Opened(h, r, m, mode, res) ==
    [e |-> AcqEv(h, r, m, "handler", mode, res), h |-> Acquire(h, m, "handler", res)]

\* Mutant: the saved state is discarded after the machine was unlocked.
DiscardOne_OperateAfterUnlock(h, r, m, res, opOk) ==
    LET o == Opened(h, r, m, "Write", res)
    IN  IF res # "ok" THEN Out(<<o.e>>, o.h, "return")
        ELSE Out(<<o.e, RelEv(m, "handler"), OpEv(m, "DiscardSavedState", opOk)>>
                 \o (IF opOk THEN <<>> ELSE <<ReportEv(m, "cannotDiscardSavedState")>>),
                 UnlockMachine(o.h, m, "handler"), "continue")

\* sltPerformDiscardMachineState, body of the loop over itemsToDiscard.
DiscardOne(h, r, m, res, opOk) ==
    LET o == Opened(h, r, m, "Write", res)
    IN  IF res # "ok" THEN Out(<<o.e>>, o.h, "return")
        ELSE Out(<<o.e, OpEv(m, "DiscardSavedState", opOk)>>
                 \o (IF opOk THEN <<>> ELSE <<ReportEv(m, "cannotDiscardSavedState")>>)
                 \o <<RelEv(m, "handler")>>,
                 UnlockMachine(o.h, m, "handler"), "continue")

\* The pause/resume loop without the check for an item already paused.
PauseOrResumeOne_PauseAgain(h, r, m, fPause, enabled, res, opOk) ==
    IF ~enabled THEN Out(<<>>, h, "continue")
    ELSE IF ~fPause /\ r[m].state \in {"Running", "Teleporting", "LiveSnapshotting"}
    THEN Out(<<>>, h, "continue")
    ELSE
      LET o == Opened(h, r, m, "Existing", res)
          name == IF fPause THEN "Pause" ELSE "Resume"
      IN  IF res # "ok" THEN Out(<<o.e>>, o.h, "return")
          ELSE Out(<<o.e, OpEv(m, name, opOk)>>
                   \o (IF opOk THEN <<>>
                       ELSE <<ReportEv(m, IF fPause THEN "cannotPauseMachine"
                                          ELSE "cannotResumeMachine")>>)
                   \o <<RelEv(m, "handler")>>,
                   UnlockMachine(o.h, m, "handler"), "continue")

\* sltPerformPauseOrResumeMachine, body of the loop over the selected items.
PauseOrResumeOne(h, r, m, fPause, enabled, res, opOk) ==
    IF ~enabled THEN Out(<<>>, h, "continue")
    ELSE IF fPause /\ r[m].state \in {"Paused", "TeleportingPausedVM"}
    THEN Out(<<>>, h, "continue")
    ELSE IF ~fPause /\ r[m].state \in {"Running", "Teleporting", "LiveSnapshotting"}
    THEN Out(<<>>, h, "continue")
    ELSE
      LET o == Opened(h, r, m, "Existing", res)
          name == IF fPause THEN "Pause" ELSE "Resume"
      IN  IF res # "ok" THEN Out(<<o.e>>, o.h, "return")
          ELSE Out(<<o.e, OpEv(m, name, opOk)>>
                   \o (IF opOk THEN <<>>
                       ELSE <<ReportEv(m, IF fPause THEN "cannotPauseMachine"
                                          ELSE "cannotResumeMachine")>>)
                   \o <<RelEv(m, "handler")>>,
                   UnlockMachine(o.h, m, "handler"), "continue")

\* Mutant: only an inaccessible machine ends the handler.
ResetOne_ReturnOnlyIfInaccessible(h, r, m, res, opOk) ==
    LET o == Opened(h, r, m, "Existing", res)
    IN  IF res = "MachineInaccessible" THEN Out(<<o.e>>, o.h, "return")
        ELSE IF res # "ok" THEN Out(<<o.e>>, o.h, "continue")
        ELSE Out(<<o.e, OpEv(m, "Reset", opOk), RelEv(m, "handler")>>,
                 UnlockMachine(o.h, m, "handler"), "continue")

\* The reset loop left after its first item.
ResetOne_ReturnAfterFirstItem(h, r, m, res, opOk) ==
    LET o == Opened(h, r, m, "Existing", res)
    IN  IF res # "ok" THEN Out(<<o.e>>, o.h, "return")
        ELSE Out(<<o.e, OpEv(m, "Reset", opOk), RelEv(m, "handler")>>,
                 UnlockMachine(o.h, m, "handler"), "return")

\* sltPerformResetMachine, body of the loop over itemsToReset.
ResetOne(h, r, m, res, opOk) ==
    LET o == Opened(h, r, m, "Existing", res)
    IN  IF res # "ok" THEN Out(<<o.e>>, o.h, "return")
        ELSE Out(<<o.e, OpEv(m, "Reset", opOk), RelEv(m, "handler")>>,
                 UnlockMachine(o.h, m, "handler"), "continue")

\* Mutant: a session that could not be opened skips the item only.
ShutdownOne_ContinueOnNullSession(h, r, m, res, opOk) ==
    LET o == Opened(h, r, m, "Existing", res)
    IN  IF res # "ok" THEN Out(<<o.e>>, o.h, "continue")
        ELSE Out(<<o.e, OpEv(m, "PowerButton", opOk)>>
                 \o (IF opOk THEN <<>> ELSE <<ReportEv(m, "cannotACPIShutdownMachine")>>)
                 \o <<RelEv(m, "handler")>>,
                 UnlockMachine(o.h, m, "handler"), "continue")

\* sltPerformShutdownMachine, body of the loop over itemsToShutdown.
ShutdownOne(h, r, m, res, opOk) ==
    LET o == Opened(h, r, m, "Existing", res)
    IN  IF res # "ok" THEN Out(<<o.e>>, o.h, "return")
        ELSE Out(<<o.e, OpEv(m, "PowerButton", opOk)>>
                 \o (IF opOk THEN <<>> ELSE <<ReportEv(m, "cannotACPIShutdownMachine")>>)
                 \o <<RelEv(m, "handler")>>,
                 UnlockMachine(o.h, m, "handler"), "continue")

\* Mutant: a failed PowerDown ends the handler instead of the item.
PowerOffOne_ReturnOnFailure(h, r, m, res, opOk) ==
    LET o == Opened(h, r, m, "Existing", res)
    IN  IF res # "ok" THEN Out(<<o.e>>, o.h, "return")
        ELSE IF opOk THEN Out(<<o.e, OpEv(m, "PowerDown", TRUE)>>, o.h, "progress")
        ELSE Out(<<o.e, OpEv(m, "PowerDown", FALSE),
                   ReportEv(m, "cannotPowerDownMachine"), RelEv(m, "handler")>>,
                 UnlockMachine(o.h, m, "handler"), "return")

\* sltPerformPowerOffMachine, body of the loop up to the progress dialog.
PowerOffOne(h, r, m, res, opOk) ==
    LET o == Opened(h, r, m, "Existing", res)
    IN  IF res # "ok" THEN Out(<<o.e>>, o.h, "return")
        ELSE IF opOk THEN Out(<<o.e, OpEv(m, "PowerDown", TRUE)>>, o.h, "progress")
        ELSE Out(<<o.e, OpEv(m, "PowerDown", FALSE),
                   ReportEv(m, "cannotPowerDownMachine"), RelEv(m, "handler")>>,
                 UnlockMachine(o.h, m, "handler"), "continue")

\* The end of the power down progress judged by its result code alone.
PowerOffProgressDone_ResultCodeOnly(h, m, isOk, rc) ==
    Out(<<ProgressEv(m, "PowerDown", isOk, rc)>>
        \o (IF rc # 0
            THEN <<Ev("progressfail", m, "PowerDown"), ReportEv(m, "cannotPowerDownMachine")>>
            ELSE <<>>)
        \o <<RelEv(m, "handler")>>,
        UnlockMachine(h, m, "handler"), "continue")

\* sltPerformPowerOffMachine, from the end of the progress dialog on.
PowerOffProgressDone(h, m, isOk, rc) ==
    Out(<<ProgressEv(m, "PowerDown", isOk, rc)>>
        \o (IF ProgressFailed(isOk, rc)
            THEN <<Ev("progressfail", m, "PowerDown"), ReportEv(m, "cannotPowerDownMachine")>>
            ELSE <<>>)
        \o <<RelEv(m, "handler")>>,
        UnlockMachine(h, m, "handler"), "continue")

\* The save state loop going on to SaveState after a Pause that failed.
SaveStateOne_SaveAfterFailedPause(h, r, m, enabled, res, pauseOk, opOk) ==
    IF ~enabled THEN Out(<<>>, h, "continue")
    ELSE
      LET o == Opened(h, r, m, "Existing", res)
          needPause == r[m].state # "Paused"
          pre == <<o.e>> \o (IF needPause THEN <<OpEv(m, "Pause", pauseOk)>> ELSE <<>>)
      IN  IF res # "ok" THEN Out(<<o.e>>, o.h, "return")
          ELSE IF opOk
          THEN Out(pre \o <<OpEv(m, "SaveState", TRUE)>>, o.h, "progress")
          ELSE Out(pre \o <<OpEv(m, "SaveState", FALSE),
                            ReportEv(m, "cannotSaveMachineState"), RelEv(m, "handler")>>,
                   UnlockMachine(o.h, m, "handler"), "continue")

\* sltPerformSaveMachineState, body of the loop up to the progress dialog.
SaveStateOne(h, r, m, enabled, res, pauseOk, opOk) ==
    IF ~enabled THEN Out(<<>>, h, "continue")
    ELSE
      LET o == Opened(h, r, m, "Existing", res)
          needPause == r[m].state # "Paused"
          pre == <<o.e>> \o (IF needPause THEN <<OpEv(m, "Pause", pauseOk)>> ELSE <<>>)
      IN  IF res # "ok" THEN Out(<<o.e>>, o.h, "return")
          ELSE IF needPause /\ ~pauseOk
          THEN Out(pre \o <<ReportEv(m, "cannotPauseMachine"), RelEv(m, "handler")>>,
                   UnlockMachine(o.h, m, "handler"), "continue")
          ELSE IF opOk
          THEN Out(pre \o <<OpEv(m, "SaveState", TRUE)>>, o.h, "progress")
          ELSE Out(pre \o <<OpEv(m, "SaveState", FALSE),
                            ReportEv(m, "cannotSaveMachineState"), RelEv(m, "handler")>>,
                   UnlockMachine(o.h, m, "handler"), "continue")

\* The end of the save state progress leaving the machine locked.
SaveStateProgressDone_KeepSession(h, m, isOk, rc) ==
    Out(<<ProgressEv(m, "SaveState", isOk, rc)>>
        \o (IF ProgressFailed(isOk, rc)
            THEN <<Ev("progressfail", m, "SaveState"), ReportEv(m, "cannotSaveMachineState")>>
            ELSE <<>>),
        h, "continue")

\* sltPerformSaveMachineState, from the end of the progress dialog on.
SaveStateProgressDone(h, m, isOk, rc) ==
    Out(<<ProgressEv(m, "SaveState", isOk, rc)>>
        \o (IF ProgressFailed(isOk, rc)
            THEN <<Ev("progressfail", m, "SaveState"), ReportEv(m, "cannotSaveMachineState")>>
            ELSE <<>>)
        \o <<RelEv(m, "handler")>>,
        UnlockMachine(h, m, "handler"), "continue")

\* sltPerformMachineMove up to the destination dialog: the session is opened
\* and the session machine fetched.
MoveOpen(h, r, m, res, machineOk) ==
    LET o == Opened(h, r, m, "Write", res)
    IN  IF res # "ok" THEN Out(<<o.e>>, o.h, "return")
        ELSE IF ~machineOk THEN Out(<<o.e, Ev("nomachine", m, "GetMachine")>>, o.h, "return")
        ELSE Out(<<o.e>>, o.h, "filedialog")

\* sltPerformMachineMove from the end of the destination dialog on.
MoveChosen(h, m, chosen, opOk) ==
    IF ~chosen
    THEN Out(<<Ev("cancel", m, "getExistingDirectory"), RelEv(m, "handler")>>,
             UnlockMachine(h, m, "handler"), "continue")
    ELSE IF opOk THEN Out(<<OpEv(m, "MoveTo", TRUE)>>, h, "progress")
    ELSE Out(<<OpEv(m, "MoveTo", FALSE), ReportEv(m, "cannotMoveMachine"),
               RelEv(m, "handler")>>,
             UnlockMachine(h, m, "handler"), "continue")

\* sltPerformMachineMove, from the end of the progress dialog on.
MoveProgressDone(h, m, isOk, rc) ==
    Out(<<ProgressEv(m, "MoveTo", isOk, rc)>>
        \o (IF ProgressFailed(isOk, rc)
            THEN <<Ev("progressfail", m, "MoveTo"), ReportEv(m, "cannotMoveMachine")>>
            ELSE <<>>)
        \o <<RelEv(m, "handler")>>,
        UnlockMachine(h, m, "handler"), "continue")

(***************************************************************************)
(* The handlers as actions.                                                 *)
(***************************************************************************)
NoFault == [m \in Machines |-> "ok"]

\* The probe answers that matter to action a.
EnvsFor(a) == IF a = "Shutdown" THEN ProbeEnvs ELSE {NoFault}

\* Mutant: the handler takes the whole selection.
FilterItems_All(a, its, h, r, env) == its

RECURSIVE FilterItems(_, _, _, _, _)
\* The handler's list of the items for which isActionEnabled holds alone.
FilterItems(a, its, h, r, env) ==
    IF its = <<>> THEN <<>>
    ELSE (IF isActionEnabled(a, <<Head(its)>>, h, r, env) THEN <<Head(its)>> ELSE <<>>)
         \o FilterItems(a, Tail(its), EnabledHeld(a, <<Head(its)>>, h, r, env), r, env)

RECURSIVE FilterEvents(_, _, _, _, _)
FilterEvents(a, its, h, r, env) ==
    IF its = <<>> THEN <<>>
    ELSE EnabledEvents(a, <<Head(its)>>, h, r, env)
         \o FilterEvents(a, Tail(its), EnabledHeld(a, <<Head(its)>>, h, r, env), r, env)

RECURSIVE FilterHeld(_, _, _, _, _)
FilterHeld(a, its, h, r, env) ==
    IF its = <<>> THEN h
    ELSE FilterHeld(a, Tail(its), EnabledHeld(a, <<Head(its)>>, h, r, env), r, env)

\* History: the items individually eligible for a in the given state.
EligibleSet(a, its, h, r, env) ==
    {its[i] : i \in {j \in 1 .. Len(its) : isActionEnabled(a, <<its[j]>>, h, r, env)}}

\* The menu action is enabled (its flag was set by the latest refresh).
Triggerable(a) ==
    /\ pc = "idle"
    /\ items # <<>>
    /\ a # "StartOrShow" => Len(items) <= MaxBatch
    /\ flags[a]

\* Mutant: a batch of one item is not confirmed.
BeginConfirmed_SizeGated(a) ==
    /\ Triggerable(a)
    /\ \E env \in EnvsFor(a) :
         LET f == FilterItems(a, items, held, rec, env)
         IN  /\ todo' = f
             /\ log' = FilterEvents(a, items, held, rec, env)
                        \o (IF Len(f) > 1 THEN <<ConfirmEv(f, "asked")>> ELSE <<>>)
             /\ pc' = IF Len(f) > 1 THEN "confirm" ELSE "items"
             /\ held' = FilterHeld(a, items, held, rec, env)
             /\ elig' = EligibleSet(a, items, held, rec, env)
    /\ cur' = 0
    /\ UNCHANGED <<opened, flags, checked, flows, wins, registered, rec, items, groupSaving, toolOk>>

\* A handler that filters, then asks for one confirmation of the whole batch.
BeginConfirmed(a) ==
    /\ Triggerable(a)
    /\ \E env \in EnvsFor(a) :
         LET f == FilterItems(a, items, held, rec, env)
         IN  /\ todo' = f
             /\ log' = FilterEvents(a, items, held, rec, env) \o <<ConfirmEv(f, "asked")>>
             /\ held' = FilterHeld(a, items, held, rec, env)
             /\ elig' = EligibleSet(a, items, held, rec, env)
    /\ pc' = "confirm"
    /\ cur' = 0
    /\ UNCHANGED <<opened, flags, checked, flows, wins, registered, rec, items, groupSaving, toolOk>>

\* The confirmation dialog of the running handler is answered.
Answered ==
    /\ pc = "confirm"
    /\ \E yes \in BOOLEAN :
         /\ log' = log \o <<Ev("answer", 0, IF yes THEN "yes" ELSE "no")>>
         /\ pc' = IF yes /\ todo # <<>> THEN "items" ELSE "done"
    /\ UNCHANGED <<opened, flags, checked, flows, wins, registered, rec, items, groupSaving, toolOk, held, act, todo, cur, elig>>

\* One item's outcome o is applied to the running loop.
Apply(o) ==
    /\ log' = log \o o.ev
    /\ held' = o.held
    /\ todo' = IF o.next = "continue" THEN Tail(todo) ELSE todo
    /\ pc' = CASE o.next = "return" -> "done"
               [] o.next = "continue" -> IF Tail(todo) = <<>> THEN "done" ELSE "items"
               [] OTHER -> o.next
    /\ cur' = IF o.next \in {"progress", "filedialog"} THEN Head(todo) ELSE 0
    /\ UNCHANGED <<opened, flags, checked, flows, wins, registered, rec, items, groupSaving, toolOk, act>>

InLoop(a) == pc = "items" /\ act = a /\ todo # <<>>

sltPerformDiscardMachineState ==
    /\ act' = "Discard"
    /\ BeginConfirmed("Discard")

DiscardConfirmAnswered ==
    /\ act = "Discard"
    /\ Answered

DiscardItem ==
    /\ InLoop("Discard")
    /\ \E res \in OpenOutcomes(held, rec, Head(todo), "Write"), opOk \in BOOLEAN :
         Apply(DiscardOne(held, rec, Head(todo), res, opOk))
    /\ UNCHANGED elig

sltPerformResetMachine ==
    /\ act' = "Reset"
    /\ BeginConfirmed("Reset")

ResetConfirmAnswered ==
    /\ act = "Reset"
    /\ Answered

ResetItem ==
    /\ InLoop("Reset")
    /\ \E res \in OpenOutcomes(held, rec, Head(todo), "Existing"), opOk \in BOOLEAN :
         Apply(ResetOne(held, rec, Head(todo), res, opOk))
    /\ UNCHANGED elig

sltPerformShutdownMachine ==
    /\ act' = "Shutdown"
    /\ BeginConfirmed("Shutdown")

ShutdownConfirmAnswered ==
    /\ act = "Shutdown"
    /\ Answered

ShutdownItem ==
    /\ InLoop("Shutdown")
    /\ \E res \in OpenOutcomes(held, rec, Head(todo), "Existing"), opOk \in BOOLEAN :
         Apply(ShutdownOne(held, rec, Head(todo), res, opOk))
    /\ UNCHANGED elig

sltPerformPowerOffMachine ==
    /\ act' = "PowerOff"
    /\ BeginConfirmed("PowerOff")

PowerOffConfirmAnswered ==
    /\ act = "PowerOff"
    /\ Answered

PowerOffItem ==
    /\ InLoop("PowerOff")
    /\ \E res \in OpenOutcomes(held, rec, Head(todo), "Existing"), opOk \in BOOLEAN :
         Apply(PowerOffOne(held, rec, Head(todo), res, opOk))
    /\ UNCHANGED elig

PowerOffProgressFinished ==
    /\ pc = "progress"
    /\ act = "PowerOff"
    /\ \E isOk \in BOOLEAN, rc \in ResultCodes :
         Apply(PowerOffProgressDone(held, cur, isOk, rc))
    /\ UNCHANGED elig

\* A handler that checks each item inside its loop, without confirmation.
BeginLoop(a) ==
    /\ pc' = "items"
    /\ act' = a
    /\ todo' = items
    /\ cur' = 0
    /\ elig' = {}
    /\ log' = <<>>
    /\ UNCHANGED <<opened, flags, flows, wins, registered, rec, items, groupSaving, toolOk, held>>

\* The toggled(bool) signal of the Pause/Resume toggle carries its new
\* checked state.
sltPerformPauseOrResumeMachine ==
    /\ Triggerable("Pause")
    /\ \E fPause \in BOOLEAN :
         /\ checked' = fPause
         /\ BeginLoop(IF fPause THEN "Pause" ELSE "Resume")

PauseOrResumeItem ==
    /\ pc = "items"
    /\ act \in {"Pause", "Resume"}
    /\ todo # <<>>
    /\ LET m == Head(todo)
           enabled == isActionEnabled("Pause", <<m>>, held, rec, NoFault)
       IN  /\ \E res \in OpenOutcomes(held, rec, m, "Existing"), opOk \in BOOLEAN :
                Apply(PauseOrResumeOne(held, rec, m, act = "Pause", enabled, res, opOk))
           /\ elig' = elig \cup EligibleSet("Pause", <<m>>, held, rec, NoFault)

sltPerformSaveMachineState ==
    /\ Triggerable("SaveState")
    /\ BeginLoop("SaveState")
    /\ UNCHANGED checked

SaveStateItem ==
    /\ InLoop("SaveState")
    /\ LET m == Head(todo)
           enabled == isActionEnabled("SaveState", <<m>>, held, rec, NoFault)
       IN  /\ \E res \in OpenOutcomes(held, rec, m, "Existing"),
                 pauseOk \in BOOLEAN, opOk \in BOOLEAN :
                Apply(SaveStateOne(held, rec, m, enabled, res, pauseOk, opOk))
           /\ elig' = elig \cup EligibleSet("SaveState", <<m>>, held, rec, NoFault)

SaveStateProgressFinished ==
    /\ pc = "progress"
    /\ act = "SaveState"
    /\ \E isOk \in BOOLEAN, rc \in ResultCodes :
         Apply(SaveStateProgressDone(held, cur, isOk, rc))
    /\ UNCHANGED elig

sltPerformMachineMove ==
    /\ Triggerable("Move")
    /\ act' = "Move"
    /\ elig' = EligibleSet("Move", <<Head(items)>>, held, rec, NoFault)
    /\ \E res \in OpenOutcomes(held, rec, Head(items), "Write"), machineOk \in BOOLEAN :
         LET o == MoveOpen(held, rec, Head(items), res, machineOk)
         IN  /\ log' = o.ev
             /\ held' = o.held
             /\ pc' = IF o.next = "return" THEN "done" ELSE o.next
             /\ cur' = IF o.next = "return" THEN 0 ELSE Head(items)
             /\ todo' = <<Head(items)>>
    /\ UNCHANGED <<opened, flags, checked, flows, wins, registered, rec, items, groupSaving, toolOk>>

MoveDestinationChosen ==
    /\ pc = "filedialog"
    /\ act = "Move"
    /\ \E chosen \in BOOLEAN, opOk \in BOOLEAN : Apply(MoveChosen(held, cur, chosen, opOk))
    /\ UNCHANGED elig

MoveProgressFinished ==
    /\ pc = "progress"
    /\ act = "Move"
    /\ \E isOk \in BOOLEAN, rc \in ResultCodes :
         Apply(MoveProgressDone(held, cur, isOk, rc))
    /\ UNCHANGED elig

RECURSIVE StartableItems(_, _)
\* performStartOrShowVirtualMachines: the list of startable items.
StartableItems(its, r) ==
    IF its = <<>> THEN <<>>
    ELSE (IF isAtLeastOneItemCanBeStarted(<<Head(its)>>, r) THEN <<Head(its)>> ELSE <<>>)
         \o StartableItems(Tail(its), r)

\* Mutant: any item to start asks the user.
NeedsStartConfirmation_AnyStartable(startable) == Len(startable) > 0

\* performStartOrShowVirtualMachines: more than one item to start asks the user.
NeedsStartConfirmation(startable) == Len(startable) > 1

RECURSIVE LaunchEvents_IgnoreAnswer(_, _, _)
\* Mutant: the answer of the user is not consulted before launching.
LaunchEvents_IgnoreAnswer(its, r, fStartConfirmed) ==
    IF its = <<>> THEN <<>>
    ELSE (IF \/ isAtLeastOneItemCanBeShown(<<Head(its)>>, r)
             \/ isAtLeastOneItemCanBeStarted(<<Head(its)>>, r)
          THEN <<Ev("launch", Head(its),
                    IF isAtLeastOneItemCanBeStarted(<<Head(its)>>, r) THEN "start" ELSE "show")>>
          ELSE <<>>)
         \o LaunchEvents_IgnoreAnswer(Tail(its), r, fStartConfirmed)

RECURSIVE LaunchEvents(_, _, _)
\* performStartOrShowVirtualMachines: the loop launching the machines.
LaunchEvents(its, r, fStartConfirmed) ==
    IF its = <<>> THEN <<>>
    ELSE (IF \/ isAtLeastOneItemCanBeShown(<<Head(its)>>, r)
             \/ (isAtLeastOneItemCanBeStarted(<<Head(its)>>, r) /\ fStartConfirmed)
          THEN <<Ev("launch", Head(its),
                    IF isAtLeastOneItemCanBeStarted(<<Head(its)>>, r) THEN "start" ELSE "show")>>
          ELSE <<>>)
         \o LaunchEvents(Tail(its), r, fStartConfirmed)

\* performStartOrShowVirtualMachines without its test of the group saving.
performStartOrShowVirtualMachines_NoGroupSavingCheck ==
    /\ pc = "idle"
    /\ items # <<>>
    /\ act' = "Start"
    /\ todo' = items
    /\ cur' = 0
    /\ elig' = {}
    /\ LET startable == StartableItems(items, rec)
       IN  IF NeedsStartConfirmation(startable)
           THEN pc' = "confirm" /\ log' = <<ConfirmEv(startable, "asked")>>
           ELSE pc' = "done" /\ log' = LaunchEvents(items, rec, TRUE)
    /\ UNCHANGED <<opened, flags, checked, flows, wins, registered, rec, items, groupSaving, toolOk, held>>

\* performStartOrShowVirtualMachines called on the current items, up to the
\* confirmation dialog or, when none is asked, to its end.  The launch mode
\* is handed on to launchMachine and decides nothing here.
performStartOrShowVirtualMachines ==
    /\ pc = "idle"
    /\ items # <<>>
    /\ act' = "Start"
    /\ todo' = items
    /\ cur' = 0
    /\ elig' = {}
    /\ IF groupSaving
       THEN pc' = "done" /\ log' = <<>>
       ELSE LET startable == StartableItems(items, rec)
            IN  IF NeedsStartConfirmation(startable)
                THEN pc' = "confirm" /\ log' = <<ConfirmEv(startable, "asked")>>
                ELSE pc' = "done" /\ log' = LaunchEvents(items, rec, TRUE)
    /\ UNCHANGED <<opened, flags, checked, flows, wins, registered, rec, items, groupSaving, toolOk, held>>

\* sltPerformStartOrShowMachine and its three siblings with a fixed launch
\* mode, connected to the triggered signal of the Start-or-Show actions.
sltPerformStartOrShowMachine ==
    /\ Triggerable("StartOrShow")
    /\ performStartOrShowVirtualMachines

StartConfirmAnswered ==
    /\ pc = "confirm"
    /\ act = "Start"
    /\ \E yes \in BOOLEAN :
         log' = log \o <<Ev("answer", 0, IF yes THEN "yes" ELSE "no")>>
                    \o LaunchEvents(todo, rec, yes)
    /\ pc' = "done"
    /\ UNCHANGED <<opened, flags, checked, flows, wins, registered, rec, items, groupSaving, toolOk, held, act, todo, cur, elig>>

\* Notifications of the running handler so far.
Notified(l) == Cardinality({i \in 1 .. Len(l) : l[i].k = "notify"})

\* sltHandleStateChange: a machine's record was replaced and every action
\* flag is recomputed; it runs from the event loop, also from the nested
\* loop of a modal dialog.
sltHandleStateChange ==
    /\ pc \in {"idle", "confirm", "progress", "filedialog"}
    /\ pc # "idle" => Notified(log) < MaxNotify
    /\ UNCHANGED <<items, groupSaving, toolOk, pc, act, todo, cur, elig, opened, flows,
                   wins, registered>>
    /\ \E i \in 1 .. Len(items), nr \in ItemRecords, env \in ProbeEnvs :
         /\ nr # rec[items[i]]
         /\ rec' = [rec EXCEPT ![items[i]] = nr]
         /\ held' = updateActionsAppearanceHeld(items, held, rec', env)
         /\ log' = IF pc = "idle" THEN log
                   ELSE log \o <<Ev("notify", items[i], "-")>>
                            \o updateActionsAppearanceEvents(items, held, rec', env)
         /\ flags' = Refreshed(env)'
         /\ checked' = PauseToggleChecked(items', rec')

(***************************************************************************)
(* The handlers that open a modal sub-flow, and the triggers of a refresh.  *)
(***************************************************************************)
\* The selection of the first k machines.
Prefix(k) == [i \in 1 .. k |-> i]

\* setProperty("opened", v) on each action of locks.
SetOpened(locks, v) == [a \in OpenedActions |-> IF a \in locks THEN v ELSE opened[a]]

\* comVBox.RegisterMachine: the registry after the events evs of a handler.
RegisteredAfter(evs) ==
    registered \cup {evs[i].m : i \in {j \in 1 .. Len(evs) :
                                        evs[j].k = "register" /\ evs[j].x = "RegisterMachine"}}

\* updateActionsAppearance called by a running handler, after the events evs.
RefreshAfter(evs) ==
    \E env \in ProbeEnvs :
        /\ held' = updateActionsAppearanceHeld(items, held, rec, env)
        /\ log' = log \o evs
        /\ flags' = Refreshed(env)'
        /\ checked' = PauseToggleChecked(items', rec')

\* A handler locks its actions, refreshes and enters its modal dialog.
EnterSubFlow(a, locks, pre) ==
    /\ Len(flows) < MaxNest
    /\ opened' = SetOpened(locks, TRUE)
    /\ flows' = Append(flows, a)
    /\ pc' = "subflow"
    /\ act' = IF flows = <<>> THEN a ELSE act
    /\ UNCHANGED <<rec, items, groupSaving, toolOk, todo, cur, elig, wins, registered>>
    /\ RefreshAfter(pre \o <<Ev("opened", 0, a)>>)

\* The end of a modal dialog whose handler leaves its actions locked.
LeaveSubFlow_KeepOpened(a, locks, evs) ==
    /\ flows # <<>>
    /\ flows[Len(flows)] = a
    /\ opened' = opened
    /\ flows' = SubSeq(flows, 1, Len(flows) - 1)
    /\ pc' = IF Len(flows) = 1 THEN "done" ELSE "subflow"
    /\ UNCHANGED <<rec, items, groupSaving, toolOk, act, todo, cur, elig, wins>>
    /\ registered' = RegisteredAfter(evs)
    /\ RefreshAfter(<<Ev("closed", 0, a)>> \o evs)

\* The innermost modal dialog ends: its handler unlocks its actions,
\* refreshes, and goes on with the events evs.
LeaveSubFlow(a, locks, evs) ==
    /\ flows # <<>>
    /\ flows[Len(flows)] = a
    /\ opened' = SetOpened(locks, FALSE)
    /\ flows' = SubSeq(flows, 1, Len(flows) - 1)
    /\ pc' = IF Len(flows) = 1 THEN "done" ELSE "subflow"
    /\ UNCHANGED <<rec, items, groupSaving, toolOk, act, todo, cur, elig, wins>>
    /\ registered' = RegisteredAfter(evs)
    /\ RefreshAfter(<<Ev("closed", 0, a)>> \o evs)

\* A handler that locks, refreshes, unlocks and refreshes without a modal
\* dialog in between, and goes on with the events evs.
PassSubFlow(a, locks, pre, evs) ==
    /\ opened' = SetOpened(locks, FALSE)
    /\ pc' = IF pc = "idle" THEN "done" ELSE pc
    /\ act' = IF pc = "idle" THEN a ELSE act
    /\ UNCHANGED <<rec, items, groupSaving, toolOk, todo, cur, elig, flows, wins>>
    /\ registered' = RegisteredAfter(evs)
    /\ \E env \in ProbeEnvs :
         LET probes == updateActionsAppearanceEvents(items, held, rec, env)
         IN  /\ held' = updateActionsAppearanceHeld(items, held, rec, env)
             /\ log' = log \o pre \o <<Ev("opened", 0, a)>>
                           \o <<Ev("closed", 0, a)>> \o evs
             /\ flags' = Refreshed(env)'
             /\ checked' = PauseToggleChecked(items', rec')

\* The menu action a is triggered: the main window takes input and a is enabled.
MenuTriggered(a) == pc = "idle" /\ flags[a]

\* sltOpenImportApplianceWizard(strFileName): the wizard is executed unless a
\* file was passed that the wizard finds invalid.
OpenImportApplianceWizard(fileGiven, valid, pre) ==
    IF ~fileGiven \/ valid
    THEN EnterSubFlow("ImportAppliance", {"ImportAppliance"}, pre)
    ELSE PassSubFlow("ImportAppliance", {"ImportAppliance"}, pre, <<>>)

sltOpenImportApplianceWizard ==
    /\ MenuTriggered("ImportAppliance")
    /\ OpenImportApplianceWizard(FALSE, TRUE, <<>>)

ImportApplianceWizardClosed ==
    /\ pc = "subflow"
    /\ LeaveSubFlow("ImportAppliance", {"ImportAppliance"}, <<>>)

sltOpenExportApplianceWizard ==
    /\ \E a \in {"ExportAppliance", "ExportToOCI"} : MenuTriggered(a)
    /\ EnterSubFlow("ExportAppliance", {"ExportAppliance", "ExportToOCI"}, <<>>)

ExportApplianceWizardClosed ==
    /\ pc = "subflow"
    /\ LeaveSubFlow("ExportAppliance", {"ExportAppliance", "ExportToOCI"}, <<>>)

sltOpenPreferencesDialog ==
    /\ MenuTriggered("Preferences")
    /\ EnterSubFlow("Preferences", {"Preferences"}, <<>>)

PreferencesDialogClosed ==
    /\ pc = "subflow"
    /\ LeaveSubFlow("Preferences", {"Preferences"}, <<>>)

\* What sltOpenAddMachineDialog does with the file once the action is unlocked.
RegisterOutcomes ==
    {"RegisterMachine", "cannotOpenMachine", "cannotReregisterExistingMachine"}

\* sltOpenAddMachineDialog registering a machine whatever FindMachine says.
AddMachineOutcome_NoFindMachine(file) ==
    IF file = 0 THEN "cannotOpenMachine" ELSE "RegisterMachine"

\* sltOpenAddMachineDialog from OpenMachine on: the file cannot be opened, or
\* its machine is found registered, or the machine is registered.
AddMachineOutcome(file) ==
    IF file = 0 THEN "cannotOpenMachine"
    ELSE IF file \in registered THEN "cannotReregisterExistingMachine"
    ELSE "RegisterMachine"

\* sltOpenAddMachineDialog(strFileName) with a file: no dialog is shown.
OpenAddMachineDialogWithFile(pre) ==
    \E file \in MachineFiles :
        PassSubFlow("AddMachine", {"AddMachine"}, pre,
                    <<Ev("register", file, AddMachineOutcome(file))>>)

\* sltOpenAddMachineDialog() without a file: the open-file dialog is shown.
sltOpenAddMachineDialog ==
    /\ MenuTriggered("AddMachine")
    /\ EnterSubFlow("AddMachine", {"AddMachine"}, <<>>)

AddMachineFileDialogClosed ==
    /\ pc = "subflow"
    /\ \/ LeaveSubFlow("AddMachine", {"AddMachine"}, <<Ev("register", 0, "nothing chosen")>>)
       \/ \E file \in MachineFiles :
            LeaveSubFlow("AddMachine", {"AddMachine"},
                         <<Ev("register", file, AddMachineOutcome(file))>>)

\* sltOpenMachineSettingsDialog, by the menu action or by a link clicked in the
\* details of the current item; an external link is handed to the browser,
\* anything else opens the settings dialog.
sltOpenMachineSettingsDialog ==
    /\ pc = "idle"
    /\ items # <<>>
    /\ \E byLink \in BOOLEAN, external \in BOOLEAN :
         /\ ~byLink => (flags["Settings"] /\ ~external)
         /\ IF external
            THEN PassSubFlow("Settings", {"Settings"}, <<>>,
                             <<Ev("openURL", Head(items), "-")>>)
            ELSE EnterSubFlow("Settings", {"Settings"}, <<>>)

MachineSettingsDialogClosed ==
    /\ pc = "subflow"
    /\ LeaveSubFlow("Settings", {"Settings"}, <<>>)

\* FileOpen events the running handler has seen inside its modal dialogs.
UrlCalls(l) == Cardinality({i \in 1 .. Len(l) : l[i].k = "url" /\ l[i].m > 0})

\* The kinds of file a FileOpen event can name.
UrlKinds == {"vbox registered", "vbox unregistered", "ovf", "ovf invalid", "extpack", "other"}

\* sltHandleOpenUrlCall for the one URL of a FileOpen event; the event is
\* processed also while a modal dialog of the manager is open.
sltHandleOpenUrlCall ==
    /\ pc \in {"idle", "subflow"}
    /\ pc = "subflow" => UrlCalls(log) < MaxUrlCalls
    /\ \E kind \in UrlKinds :
         LET pre == <<Ev("url", Len(flows), kind)>>
         IN
         CASE kind = "vbox unregistered" -> OpenAddMachineDialogWithFile(pre)
           [] kind = "ovf" -> OpenImportApplianceWizard(TRUE, TRUE, pre)
           [] kind = "ovf invalid" -> OpenImportApplianceWizard(TRUE, FALSE, pre)
           [] OTHER ->
                /\ log' = log \o pre
                /\ pc' = IF pc = "idle" THEN "done" ELSE pc
                /\ act' = IF pc = "idle" THEN "OpenUrl" ELSE act
                /\ UNCHANGED <<opened, flags, checked, flows, wins, registered, rec, items, groupSaving, toolOk,
                               held, todo, cur, elig>>

\* updateActionsAppearance leaving the Start-or-Show flag as it was.
RefreshIdle_SkipStartOrShow ==
    \E env \in ProbeEnvs :
        /\ held' = updateActionsAppearanceHeld(items', held, rec, env)
        /\ flags' = [a \in Actions |->
                        IF a = "StartOrShow" THEN flags[a] ELSE Refreshed(env)'[a]]
        /\ checked' = PauseToggleChecked(items', rec')

\* updateActionsAppearance called from the event loop of the idle window.
RefreshIdle ==
    \E env \in ProbeEnvs :
        /\ held' = updateActionsAppearanceHeld(items', held, rec, env)
        /\ flags' = Refreshed(env)'
        /\ checked' = PauseToggleChecked(items', rec')

\* The refresh triggers are served by the event loop of the idle window and
\* by the nested event loop of a modal sub-flow.
InEventLoop == pc \in {"idle", "subflow"}

\* sltHandleChooserPaneIndexChange: another selection is current.
sltHandleChooserPaneIndexChange ==
    /\ pc = "idle"
    /\ \E k \in 0 .. NumMachines : items' = Prefix(k) /\ items' # items
    /\ UNCHANGED <<rec, groupSaving, toolOk, pc, act, todo, cur, elig, log, opened, flows,
                   wins, registered>>
    /\ RefreshIdle

\* sltHandleGroupSavingProgressChange: group saving has started or ended.
sltHandleGroupSavingProgressChange ==
    /\ InEventLoop
    /\ groupSaving' = ~groupSaving
    /\ UNCHANGED <<rec, items, toolOk, pc, act, todo, cur, elig, log, opened, flows,
                   wins, registered>>
    /\ RefreshIdle

\* sltHandleToolTypeChange: the machine tool shown has changed.
sltHandleToolTypeChange ==
    /\ pc = "idle"
    /\ toolOk' = ~toolOk
    /\ UNCHANGED <<rec, items, groupSaving, pc, act, todo, cur, elig, log, opened, flows,
                   wins, registered>>
    /\ RefreshIdle

\* The handler has returned to the event loop.
Return ==
    /\ pc = "done"
    /\ pc' = "idle"
    /\ act' = "none"
    /\ todo' = <<>>
    /\ cur' = 0
    /\ elig' = {}
    /\ log' = <<>>
    /\ UNCHANGED <<opened, flags, checked, flows, wins, registered, rec, items, groupSaving, toolOk, held>>

(***************************************************************************)
(* The log viewer dialogs and the manager windows, which are not modal.    *)
(***************************************************************************)
\* The tools shown the embedded way or in windows of their own.
WindowTools == ManagerTools \cup {"Logs"}

\* m_pWidget->setToolsType(t) for a tool the widget opens the embedded way.
openTool(t) == toolOpened \cup {t}

\* m_pWidget->closeGlobalTool(t) and closeMachineTool(t).
closeTool(t) == toolOpened \ {t}

\* The cleanup of a dialog factory on a log viewer dialog: the dialog is
\* closed and deleted.  A dialog deleted twice stays so.
FactoryCleanup(ds, d) ==
    [ds EXCEPT ![d].cleaned = IF @ = 0 THEN 1 ELSE 2]

LogViewers(v, ds) == [v |-> v, ds |-> ds]

RECURSIVE CloseLogViewerOfSender_CleanupBeforeErase(_, _, _, _)
\* The branch of sltCloseLogViewerWindow for a sender, cleaning the dialog up
\* while it is still in the map.
CloseLogViewerOfSender_CleanupBeforeErase(sender, v, ds, reenter) ==
    IF \A m \in Machines : v[m] # sender THEN LogViewers(v, ds)
    ELSE
      LET m == CHOOSE k \in Machines : v[k] = sender
          ds1 == FactoryCleanup(ds, sender)
          in == IF reenter /\ ds[sender].cleaned = 0
                THEN CloseLogViewerOfSender_CleanupBeforeErase(sender, v, ds1, reenter)
                ELSE LogViewers(v, ds1)
      IN  LogViewers([in.v EXCEPT ![m] = 0], in.ds)

RECURSIVE CloseLogViewerOfSender(_, _, _, _)
\* sltCloseLogViewerWindow called by sigClose of the dialog sender: the dialog
\* is looked up in the map, erased from it and then cleaned up.  With
\* reenter the cleanup has the dialog emit sigClose once more, which calls
\* this function again before the cleanup returns.
CloseLogViewerOfSender(sender, v, ds, reenter) ==
    IF \A m \in Machines : v[m] # sender THEN LogViewers(v, ds)
    ELSE
      LET m == CHOOSE k \in Machines : v[k] = sender
          v1 == [v EXCEPT ![m] = 0]
          ds1 == FactoryCleanup(ds, sender)
      IN  IF reenter THEN CloseLogViewerOfSender(sender, v1, ds1, reenter)
          ELSE LogViewers(v1, ds1)

RECURSIVE WipeOutLogViewers(_, _, _, _)
\* sltCloseLogViewerWindow without a dialog as sender: every key of the map,
\* from key m on, is removed and its dialog cleaned up.
WipeOutLogViewers(m, v, ds, reenter) ==
    IF m > NumMachines THEN LogViewers(v, ds)
    ELSE IF v[m] = 0 THEN WipeOutLogViewers(m + 1, v, ds, reenter)
    ELSE
      LET pDialog == v[m]
          v1 == [v EXCEPT ![m] = 0]
          ds1 == FactoryCleanup(ds, pDialog)
          in == IF reenter THEN CloseLogViewerOfSender(pDialog, v1, ds1, reenter)
                ELSE LogViewers(v1, ds1)
      IN  WipeOutLogViewers(m + 1, in.v, in.ds, reenter)

\* sltCloseLogViewerWindow; sender 0 is a sender that is no dialog.
sltCloseLogViewerWindow(sender, v, ds, reenter) ==
    IF sender \in DialogIds THEN CloseLogViewerOfSender(sender, v, ds, reenter)
    ELSE WipeOutLogViewers(1, v, ds, reenter)

\* The dialogs never created so far.
FreeDialogs == {d \in DialogIds : dialogs[d].machine = 0}

\* The n-th smallest element of the set S of numbers.
Nth(S, n) == CHOOSE d \in S : Cardinality({x \in S : x <= d}) = n

\* The handlers below return at once; they leave the batch handlers' state.
WindowFrame ==
    UNCHANGED <<rec, items, groupSaving, pc, act, todo, cur, elig, log, opened, flows,
                registered>>

\* sltHandleToolTypeChange when the tool changed to is none of the four: the
\* actions are refreshed and no window is closed.
RefreshOnToolType(changed) ==
    IF changed
    THEN \E env \in ProbeEnvs :
            /\ held' = updateActionsAppearanceHeld(items, held, rec, env)
            /\ flags' = [a \in Actions |-> isActionEnabled(a, items, held, rec, env)]
            /\ checked' = PauseToggleChecked(items, rec)
    ELSE UNCHANGED <<held, flags, checked>>

\* sltOpenLogViewerWindow: the embedded log viewer is closed, and every
\* selected item whose log can be shown gets a dialog unless it has one.
sltOpenLogViewerWindow ==
    /\ pc = "idle"
    /\ flags["ShowLogDialog"]
    /\ LET shown == {items[i] : i \in {j \in 1 .. Len(items) :
                        isActionEnabled("ShowLogDialog", <<items[j]>>, held, rec, NoFault)}}
           need == {m \in shown : m_logViewers[m] = 0}
           rank(m) == Cardinality({x \in need : x <= m})
       IN  /\ Cardinality(need) <= Cardinality(FreeDialogs)
           /\ m_logViewers' = [m \in Machines |->
                                 IF m \in need THEN Nth(FreeDialogs, rank(m))
                                 ELSE m_logViewers[m]]
           /\ dialogs' = [d \in DialogIds |->
                            IF \E m \in need : d = Nth(FreeDialogs, rank(m))
                            THEN [machine |-> CHOOSE m \in need : d = Nth(FreeDialogs, rank(m)),
                                  cleaned |-> 0]
                            ELSE dialogs[d]]
    /\ toolOpened' = closeTool("Logs")
    /\ UNCHANGED <<toolOk, m_pManager, live>>
    /\ WindowFrame
    /\ RefreshOnToolType("Logs" \in toolOpened)

\* A log viewer dialog emits sigClose, which calls sltCloseLogViewerWindow.
LogViewerDialogClosed ==
    /\ pc = "idle"
    /\ \E m \in Machines, reenter \in BOOLEAN :
         /\ m_logViewers[m] # 0
         /\ LET r == sltCloseLogViewerWindow(m_logViewers[m], m_logViewers, dialogs, reenter)
            IN  m_logViewers' = r.v /\ dialogs' = r.ds
    /\ UNCHANGED <<toolOk, toolOpened, m_pManager, live, held, flags, checked>>
    /\ WindowFrame

\* sltCloseVirtualMediumManagerWindow and its two siblings: the window of
\* manager k is destroyed if it exists; the cleanup of the factory deletes
\* it and resets the pointer.
sltCloseManagerWindow(k, p, l) ==
    IF p[k] THEN [p |-> [p EXCEPT ![k] = FALSE], l |-> [l EXCEPT ![k] = @ - 1]]
    ELSE [p |-> p, l |-> l]

\* The switch of sltHandleToolTypeChange closing no window.
ToolTypeSwitch_KeepWindows(t, p, l, v, ds, reenter) ==
    [p |-> p, l |-> l, v |-> v, ds |-> ds]

\* sltHandleToolTypeChange, the switch: the separate window of the tool
\* changed to is closed.
ToolTypeSwitch(t, p, l, v, ds, reenter) ==
    IF t \in ManagerTools
    THEN LET c == sltCloseManagerWindow(t, p, l)
         IN  [p |-> c.p, l |-> c.l, v |-> v, ds |-> ds]
    ELSE IF t = "Logs"
    THEN LET c == sltCloseLogViewerWindow(0, v, ds, reenter)
         IN  [p |-> p, l |-> l, v |-> c.v, ds |-> c.ds]
    ELSE [p |-> p, l |-> l, v |-> v, ds |-> ds]

\* sltHandleToolTypeChange after the widget opened tool t the embedded way.
sltHandleToolTypeChangeTo(t) ==
    /\ pc = "idle"
    /\ toolOpened' = openTool(t)
    /\ toolOk' = (t = "Logs" \/ toolOk)
    /\ WindowFrame
    /\ \E env \in ProbeEnvs :
         /\ held' = updateActionsAppearanceHeld(items, held, rec, env)
         /\ flags' = Refreshed(env)'
         /\ checked' = PauseToggleChecked(items, rec)
    /\ \E reenter \in BOOLEAN :
         LET s == ToolTypeSwitch(t, m_pManager, live, m_logViewers, dialogs, reenter)
         IN  /\ m_pManager' = s.p
             /\ live' = s.l
             /\ m_logViewers' = s.v
             /\ dialogs' = s.ds

\* sltOpenVirtualMediumManagerWindow and its two siblings: the tool is
\* closed if it is open the embedded way, the window is created unless it
\* exists, and shown.
sltOpenManagerWindow(k) ==
    /\ pc = "idle"
    /\ toolOpened' = closeTool(k)
    /\ m_pManager' = [m_pManager EXCEPT ![k] = TRUE]
    /\ live' = [live EXCEPT ![k] = IF m_pManager[k] THEN @ ELSE @ + 1]
    /\ UNCHANGED <<toolOk, m_logViewers, dialogs>>
    /\ WindowFrame
    /\ RefreshOnToolType(k \in toolOpened)

\* The window of manager k emits sigClose.
ManagerWindowClosed(k) ==
    /\ pc = "idle"
    /\ m_pManager[k]
    /\ LET c == sltCloseManagerWindow(k, m_pManager, live)
       IN  m_pManager' = c.p /\ live' = c.l
    /\ UNCHANGED <<toolOk, toolOpened, m_logViewers, dialogs, held, flags, checked>>
    /\ WindowFrame

\* The state after construction with the first k machines selected.
InitWith(maxSel) ==
    /\ \E k \in 1 .. maxSel :
         /\ items = Prefix(k)
         /\ rec \in [Machines -> ItemRecords]
         /\ \A m \in Machines : m > k => rec[m] = DefaultRec
    /\ groupSaving \in BOOLEAN
    /\ toolOk \in BOOLEAN
    /\ held = {}
    /\ pc = "idle"
    /\ act = "none"
    /\ todo = <<>>
    /\ cur = 0
    /\ elig = {}
    /\ log = <<>>
    /\ opened = [a \in OpenedActions |-> FALSE]
    /\ flows = <<>>
    /\ \E env \in ProbeEnvs : flags = Refreshed(env)
    /\ checked = PauseToggleChecked(items, rec)
    /\ m_logViewers = [m \in Machines |-> 0]
    /\ dialogs = [d \in DialogIds |-> [machine |-> 0, cleaned |-> 0]]
    /\ toolOpened = {}
    /\ m_pManager = [k \in ManagerTools |-> FALSE]
    /\ live = [k \in ManagerTools |-> 0]
    /\ registered = {}

Init == InitWith(NumMachines)

Next ==
    \/ sltPerformMachineMove
    \/ MoveDestinationChosen
    \/ MoveProgressFinished
    \/ sltPerformDiscardMachineState
    \/ DiscardConfirmAnswered
    \/ DiscardItem
    \/ sltPerformPauseOrResumeMachine
    \/ PauseOrResumeItem
    \/ sltPerformResetMachine
    \/ ResetConfirmAnswered
    \/ ResetItem
    \/ sltPerformSaveMachineState
    \/ SaveStateItem
    \/ SaveStateProgressFinished
    \/ sltPerformShutdownMachine
    \/ ShutdownConfirmAnswered
    \/ ShutdownItem
    \/ sltPerformPowerOffMachine
    \/ PowerOffConfirmAnswered
    \/ PowerOffItem
    \/ PowerOffProgressFinished
    \/ sltPerformStartOrShowMachine
    \/ StartConfirmAnswered
    \/ sltHandleStateChange
    \/ Return

Spec == Init /\ [][Next]_vars

\* The confirmed batch handlers on a selection of at most MaxBatch machines.
\* Every remote call and every progress returns: an item that is due is
\* processed, and a progress dialog that is shown ends.
InitLive == InitWith(MaxBatch)

NextLive ==
    \/ sltPerformDiscardMachineState
    \/ DiscardConfirmAnswered
    \/ DiscardItem
    \/ sltPerformResetMachine
    \/ ResetConfirmAnswered
    \/ ResetItem
    \/ sltPerformShutdownMachine
    \/ ShutdownConfirmAnswered
    \/ ShutdownItem
    \/ sltPerformPowerOffMachine
    \/ PowerOffConfirmAnswered
    \/ PowerOffItem
    \/ PowerOffProgressFinished
    \/ sltHandleStateChange
    \/ Return

RemoteCallsReturn ==
    /\ WF_vars(DiscardItem)
    /\ WF_vars(ResetItem)
    /\ WF_vars(ShutdownItem)
    /\ WF_vars(PowerOffItem)
    /\ WF_vars(PowerOffProgressFinished)

SpecLive == InitLive /\ [][NextLive]_vars /\ RemoteCallsReturn

\* The sub-flow handlers on a selection of at most MaxBatch machines, with
\* the FileOpen events and group saving changes their dialogs let through.
InitFlows == InitWith(MaxBatch)

NextFlows ==
    \/ sltOpenImportApplianceWizard
    \/ ImportApplianceWizardClosed
    \/ sltOpenExportApplianceWizard
    \/ ExportApplianceWizardClosed
    \/ sltOpenPreferencesDialog
    \/ PreferencesDialogClosed
    \/ sltOpenAddMachineDialog
    \/ AddMachineFileDialogClosed
    \/ sltOpenMachineSettingsDialog
    \/ MachineSettingsDialogClosed
    \/ sltHandleOpenUrlCall
    \/ sltHandleGroupSavingProgressChange
    \/ Return

SpecFlows == InitFlows /\ [][NextFlows]_vars

\* The refresh of the action flags by every trigger of the idle window.
NextRefresh ==
    \/ sltHandleChooserPaneIndexChange
    \/ sltHandleGroupSavingProgressChange
    \/ sltHandleToolTypeChange
    \/ sltHandleStateChange

SpecRefresh == Init /\ [][NextRefresh]_vars

(***************************************************************************)
(* Properties.                                                              *)
(***************************************************************************)
LogIdx == 1 .. Len(log)

IsAcq(e, who) == e.k = "acquire" /\ e.who = who

IsAcqOk(e, who, m) == e.k = "acquire" /\ e.who = who /\ e.m = m /\ e.x = "ok"

IsRel(e, who, m) == e.k = "release" /\ e.who = who /\ e.m = m

IsFailure(e) == (e.k = "op" /\ ~e.ok) \/ e.k = "progressfail"

\* The confirmation of the running handler was declined.
Declined == \E i \in LogIdx : log[i].k = "answer" /\ log[i].x = "no"

Accepted == \E i \in LogIdx : log[i].k = "answer" /\ log[i].x = "yes"

\* The handler's latest event is a session it could not open.
AcquireFailedLast ==
    log # <<>> /\ IsAcq(log[Len(log)], "handler") /\ log[Len(log)].x # "ok"

\* The names the confirmation of the running handler carried.
ConfirmedNames ==
    LET i == CHOOSE j \in LogIdx : log[j].k = "confirm"
    IN  {log[i].names[n] : n \in 1 .. Len(log[i].names)}

C2_NoSessionLeak == pc \in {"done", "idle"} => held = {}

C3Acts == {"Discard", "Pause", "Resume", "SaveState", "Shutdown", "PowerOff"}

\* C3: in a batch a failure the remote operation reports on an item is
\* reported for that item and the item's session is released; the loop ends
\* before the last item only on a declined confirmation or on a session that
\* could not be opened, so every later item of a confirmed batch still gets
\* its session opened, its operation issued and its session released.
C3_BatchIsolationOnRemoteFailure ==
    /\ act \in C3Acts =>
         \A i \in LogIdx :
           IsFailure(log[i]) =>
             /\ \E j \in LogIdx : j > i /\ log[j].k = "report" /\ log[j].m = log[i].m
             /\ \E j \in LogIdx : j > i /\ IsRel(log[j], "handler", log[i].m)
    /\ (pc = "done" /\ act \in C3Acts /\ todo # <<>>) => (Declined \/ AcquireFailedLast)
    /\ (pc = "done" /\ act \in {"Discard", "Shutdown", "PowerOff"} /\ todo = <<>> /\ Accepted) =>
         \A m \in ConfirmedNames :
           \E i \in LogIdx, j \in LogIdx, n \in LogIdx :
             /\ i < j /\ j < n
             /\ IsAcqOk(log[i], "handler", m)
             /\ log[j].k = "op" /\ log[j].m = m
             /\ IsRel(log[n], "handler", m)

\* C3 witness: PowerOff of machines 1 and 2, machine 1's power-down fails and
\* machine 2 is still powered down and released.
C3_Witness ==
    /\ pc = "done"
    /\ act = "PowerOff"
    /\ todo = <<>>
    /\ \E i \in LogIdx, j \in LogIdx, n \in LogIdx :
         /\ i < j /\ j < n
         /\ IsFailure(log[i]) /\ log[i].m = 1
         /\ log[j].k = "op" /\ log[j].m = 2 /\ log[j].ok
         /\ IsRel(log[n], "handler", 2)
    /\ ~\E i \in LogIdx : IsFailure(log[i]) /\ log[i].m = 2

BatchActs == C3Acts \cup {"Reset"}

ConfirmActs == {"Discard", "Reset", "Shutdown", "PowerOff"}

Unreachable == {"MachineInaccessible", "RemoteError"}

ConfirmIdx == {i \in LogIdx : log[i].k = "confirm"}

Launched(x) == {log[i].m : i \in {j \in LogIdx : log[j].k = "launch" /\ log[j].x = x}}

SeqSet(q) == {q[n] : n \in 1 .. Len(q)}

\* C6: Start asks the start-multiple confirmation exactly once when more than
\* one item of the selection is startable and never otherwise, and asks it
\* before any machine is launched; Start opens no session.
C6_StartConfirmationGating ==
    act = "Start" =>
        /\ Cardinality(ConfirmIdx) <= 1
        /\ \A i \in ConfirmIdx : i = 1 /\ Len(log[i].names) > 1
        /\ (pc = "confirm" /\ Notified(log) = 0) =>
               /\ ConfirmIdx = {1}
               /\ log[1].names = StartableItems(items, rec)
        /\ (pc = "done" /\ ConfirmIdx = {}) => Len(StartableItems(items, rec)) <= 1
        /\ \A i \in LogIdx : log[i].k = "launch" =>
               ConfirmIdx = {} \/ \E j \in LogIdx : j < i /\ log[j].k = "answer"
        /\ ~\E i \in LogIdx : IsAcq(log[i], "handler")

\* C6 witness: two startable machines were confirmed once and both launched
\* after the answer.
C6_Witness ==
    /\ act = "Start"
    /\ pc = "done"
    /\ ConfirmIdx = {1}
    /\ Accepted
    /\ Cardinality(Launched("start")) = 2

\* C7 as stated: after a declined confirmation nothing is launched, no
\* session is opened by the handler and no remote operation is issued.
C7_DeclineAbortsWholeBatch ==
    Declined =>
        /\ pc = "done"
        /\ ~\E i \in LogIdx :
              log[i].k \in {"launch", "op"} \/ IsAcq(log[i], "handler")

\* C7 as amended: after a declined confirmation no session is opened by the
\* handler, no remote operation is issued and no machine is started; the
\* machines of a Start selection that are running and showable are still
\* shown.
C7_DeclineStartsNothing ==
    Declined =>
        /\ pc = "done"
        /\ ~\E i \in LogIdx : log[i].k = "op" \/ IsAcq(log[i], "handler")
        /\ Launched("start") = {}
        /\ act # "Start" => Launched("show") = {}
        /\ act = "Start" =>
             Launched("show") =
               {m \in SeqSet(todo) : isAtLeastOneItemCanBeShown(<<m>>, rec)}

\* C7 witness: Start on two startable machines and a running showable one is
\* declined, and the running machine is shown.
C7_Witness ==
    /\ act = "Start"
    /\ Declined
    /\ Len(log[1].names) = 2
    /\ Cardinality(Launched("show")) = 1
    /\ Launched("start") = {}

\* C8 as stated: Reset, Shutdown, PowerOff and Discard ask exactly one
\* confirmation carrying the filtered items, also for one item, and no
\* session on a machine is requested before it.
C8_ConfirmationBeforeEveryAcquire ==
    (act \in ConfirmActs) =>
        /\ Cardinality(ConfirmIdx) = 1
        /\ \A c \in ConfirmIdx :
             /\ SeqSet(log[c].names) = elig
             /\ \A i \in LogIdx : log[i].k = "acquire" => c < i

\* C8 as amended: Reset, Shutdown, PowerOff and Discard ask exactly one
\* confirmation carrying the filtered items, also for one item, and it is
\* accepted before the first session of a per-item operation is opened; the
\* sessions the Shutdown filter opens to probe for ACPI are opened and
\* released before the confirmation is asked.
C8_ConfirmationBeforeItemSessions ==
    (act \in ConfirmActs) =>
        /\ Cardinality(ConfirmIdx) = 1
        /\ \A c \in ConfirmIdx :
             /\ SeqSet(log[c].names) = elig
             /\ Len(log[c].names) = Cardinality(elig)
             /\ \A i \in LogIdx : IsAcq(log[i], "handler") =>
                  \E j \in LogIdx : c < j /\ j < i /\ log[j].k = "answer" /\ log[j].x = "yes"
             /\ \A i \in LogIdx : (i < c) =>
                  /\ act = "Shutdown"
                  /\ log[i].k \in {"acquire", "release"}
                  /\ log[i].who = "probe"
                  /\ (log[i].k = "acquire" /\ log[i].x = "ok") =>
                       (i + 1 < c /\ IsRel(log[i + 1], "probe", log[i].m))

\* C8 witness: a Shutdown of one machine was probed, confirmed once and its
\* session opened after the confirmation.
C8_Witness ==
    /\ act = "Shutdown"
    /\ Len(items) = 1
    /\ \E c \in ConfirmIdx :
         /\ \E i \in LogIdx : i < c /\ IsAcq(log[i], "probe") /\ log[i].x = "ok"
         /\ \E i \in LogIdx : i > c /\ IsAcq(log[i], "handler") /\ log[i].x = "ok"

\* C9: a batch action issues its remote operation only on items that were
\* eligible when checked alone, and the confirmed batch contains exactly
\* those items.
C9_PerItemFiltering ==
    /\ \A i \in LogIdx : log[i].k = "op" => log[i].m \in elig
    /\ act \in ConfirmActs => SeqSet(todo) \subseteq elig

\* C9 witness: Discard on a running machine 1 and a saved machine 2 was
\* confirmed for machine 2 alone and discarded machine 2 alone.
C9_Witness ==
    /\ act = "Discard"
    /\ pc = "done"
    /\ items = <<1, 2>>
    /\ ConfirmedNames = {2}
    /\ \E i \in LogIdx : log[i].k = "op" /\ log[i].m = 2
    /\ ~\E i \in LogIdx : log[i].k = "op" /\ log[i].m = 1
    /\ Notified(log) = 0
    /\ rec[1].state = "Running"

\* C10: for each item the events are ordered acquire, operation, release: an
\* operation on a machine is issued while the handler's session on it is
\* open, a session is released only after it was opened, and a finished
\* batch has released every session it opened.
C10_AcquireOperateRelease ==
    /\ \A i \in LogIdx : log[i].k \in {"op", "progressfail"} =>
         \E j \in LogIdx :
            /\ j < i
            /\ IsAcqOk(log[j], "handler", log[i].m)
            /\ \A n \in LogIdx : (j < n /\ n < i) => ~IsRel(log[n], "handler", log[i].m)
    /\ \A i \in LogIdx : (log[i].k = "release" /\ log[i].who = "handler") =>
         \E j \in LogIdx :
            /\ j < i
            /\ IsAcqOk(log[j], "handler", log[i].m)
            /\ \A n \in LogIdx : (j < n /\ n < i) => ~IsRel(log[n], "handler", log[i].m)
    /\ (pc = "done" /\ act \in BatchActs) =>
         \A j \in LogIdx : (IsAcq(log[j], "handler") /\ log[j].x = "ok") =>
            \E n \in LogIdx : n > j /\ IsRel(log[n], "handler", log[j].m)

\* C10 witness: a confirmed Discard of one machine opened the session,
\* discarded the saved state and released the session, in that order.
C10_Witness ==
    /\ act = "Discard"
    /\ pc = "done"
    /\ \E i \in LogIdx :
         /\ i + 2 <= Len(log)
         /\ IsAcqOk(log[i], "handler", 1)
         /\ log[i + 1].k = "op" /\ log[i + 1].m = 1 /\ log[i + 1].ok
         /\ IsRel(log[i + 2], "handler", 1)

(***************************************************************************)
(* The evaluator and the refresh of the action flags.                      *)
(***************************************************************************)

\* C11: with an empty item list isActionEnabled answers FALSE for every
\* machine action, whatever the probes would find, and while the selection is
\* empty no machine action's flag is set; only the global actions can be
\* enabled then.
C11_EmptySelectionDisablesMachineActions ==
    /\ \A a \in MachineActions, env \in ProbeEnvs :
         ~isActionEnabled(a, <<>>, held, rec, env)
    /\ items = <<>> =>
         \A a \in Actions : flags[a] => a \in GlobalActions

\* C11 witness: the selection was emptied while no group saving is running;
\* the global actions are enabled and every machine action is disabled.
C11_Witness ==
    /\ items = <<>>
    /\ ~groupSaving
    /\ \A a \in GlobalActions : flags[a]
    /\ \A a \in MachineActions : ~flags[a]

\* Some selected item is powered off and editable, or started and showable
\* (it can switch to its running UI or runs headless).
SomeItemStartableOrShowable ==
    \E i \in 1 .. Len(items) :
        LET it == rec[items[i]]
        IN  \/ isItemPoweredOff(it) /\ it.accessible /\ it.editable
            \/ isItemStarted(it) /\ it.canSwitchTo

\* C12 as stated: Start-or-Show is enabled exactly when some selected item is
\* (powered off and editable) or (started and showable).
C12_StartOrShowByItemsAlone ==
    flags["StartOrShow"] <=> SomeItemStartableOrShowable

\* C12 amended: Start-or-Show is enabled exactly when no group saving is in
\* progress, the machine tool is not Snapshots or the current state item is
\* selected, and some selected item is (powered off and editable) or (started
\* and showable); the evaluator gives the same answer whatever the probes find.
C12_StartOrShowEnablement ==
    /\ flags["StartOrShow"] <=>
         (~groupSaving /\ toolOk /\ SomeItemStartableOrShowable)
    /\ \A env \in ProbeEnvs :
         isActionEnabled("StartOrShow", items, held, rec, env) = flags["StartOrShow"]

\* C12 witness: a single powered off, editable machine is selected with no
\* group saving and the tool condition met, and Start-or-Show is enabled.
C12_Witness ==
    /\ items = <<1>>
    /\ rec[1].state = "PoweredOff"
    /\ rec[1].editable
    /\ ~groupSaving
    /\ toolOk
    /\ flags["StartOrShow"]

\* The live probe of machine m under env: the session and the console are
\* obtained and the guest reports that it entered ACPI mode.
ProbeReportsAcpi(m, env) ==
    /\ isItemRunning(rec[m])
    /\ ProbeOpen(held, rec, m, env) = "ok"
    /\ env[m] # "nocons"
    /\ rec[m].acpi

\* C13: Shutdown is enabled exactly when some selected item is started and
\* some running selected item, probed through a session, reports ACPI mode;
\* the flag is never set without a running item whose guest entered ACPI
\* mode, and a probe whose session or console is missing enables nothing.
C13_ShutdownEnablement ==
    /\ \A env \in ProbeEnvs :
         isActionEnabled("Shutdown", items, held, rec, env) <=>
            /\ \E i \in 1 .. Len(items) : isItemStarted(rec[items[i]])
            /\ \E i \in 1 .. Len(items) : ProbeReportsAcpi(items[i], env)
    /\ flags["Shutdown"] =>
         \E i \in 1 .. Len(items) :
            isItemRunning(rec[items[i]]) /\ rec[items[i]].acpi

\* C13 witness: the one selected machine is running and its guest has not
\* entered ACPI mode; the Close submenu is enabled and Shutdown is not.
C13_Witness ==
    /\ items = <<1>>
    /\ rec[1].state = "Running"
    /\ ~rec[1].acpi
    /\ flags["Close"]
    /\ flags["PowerOff"]
    /\ ~flags["Shutdown"]

\* C14: the evaluator has no effect: whatever action it is asked about and
\* whatever the probes find, the sessions held after the call are the
\* sessions held before it (the opened flags and the machine records are
\* only read), no probe session stays held, and in the history every probe
\* session that was opened is unlocked by the very next event.
C14_EvaluatorIsSideEffectFree ==
    /\ \A a \in Actions, env \in ProbeEnvs :
         EnabledHeld(a, items, held, rec, env) = held
    /\ \A env \in ProbeEnvs :
         updateActionsAppearanceHeld(items, held, rec, env) = held
    /\ \A s \in held : s.who # "probe"
    /\ \A i \in LogIdx, m \in Machines :
         IsAcqOk(log[i], "probe", m) =>
            i < Len(log) /\ IsRel(log[i + 1], "probe", m)

\* C14 witness: while a handler waits in a modal dialog with a session of its
\* own open, a refresh probed a running machine through a session and
\* unlocked it; the handler's session is the only one still held.
C14_Witness ==
    /\ pc = "progress"
    /\ held # {}
    /\ \A s \in held : s.who = "handler"
    /\ \E i \in LogIdx, m \in Machines :
         /\ IsAcqOk(log[i], "probe", m)
         /\ i < Len(log)
         /\ IsRel(log[i + 1], "probe", m)

(***************************************************************************)
(* The re-entrancy guard of the modal sub-flows.                           *)
(***************************************************************************)

\* The events a step appends to the history.
NewLog ==
    IF Len(log') > Len(log) THEN SubSeq(log', Len(log) + 1, Len(log')) ELSE <<>>

\* What enables action a apart from its opened flag.
GuardFree(a) ==
    IF a = "Settings"
    THEN /\ ~groupSaving
         /\ Len(items) = 1
         /\ rec[items[1]].accessible
         /\ toolOk
    ELSE IF a = "ExportToOCI" THEN Len(items) = 1
    ELSE TRUE

\* C15: a handler that enters a modal sub-flow has set the opened flag of its
\* action and the action is disabled from then on; in every state an action
\* whose flag is set is disabled, in the flags and for the evaluator; and when
\* the handler has cleared the flag on its way out the flag is clear and the
\* action is enabled again, as far as its other conditions allow.
C15_ReentrancyGuard ==
    /\ [](\A a \in OpenedActions :
            opened[a] =>
               /\ ~flags[a]
               /\ \A env \in ProbeEnvs : ~isActionEnabled(a, items, held, rec, env))
    /\ [][ /\ Len(flows') > Len(flows) =>
               LET a == flows'[Len(flows')]
               IN  opened'[a] /\ ~flags'[a]
           /\ \A j \in 1 .. Len(NewLog) :
               NewLog[j].k = "closed" =>
                  LET a == NewLog[j].x
                  IN  ~opened'[a] /\ (flags'[a] <=> GuardFree(a))
         ]_vars

\* C15 witness: the settings dialog of the selected machine was opened from
\* the menu and closed again; the handler has returned, the opened flag of
\* Settings is clear and the action is enabled again.
C15_Witness ==
    /\ pc = "done"
    /\ act = "Settings"
    /\ log = <<Ev("opened", 0, "Settings"), Ev("closed", 0, "Settings")>>
    /\ ~opened["Settings"]
    /\ flags["Settings"]

\* C16: at most one sub-flow of an action is in progress at a time, and the
\* opened flag of an action is set in every state where one of its sub-flows
\* is in progress.
C16_NoDuplicateSubFlows ==
    /\ \A i, j \in 1 .. Len(flows) : flows[i] = flows[j] => i = j
    /\ \A i \in 1 .. Len(flows) : opened[flows[i]]

\* C17: every trigger (chooser index change, machine state notification,
\* group saving change, tool type change) recomputes all action flags: after
\* its handler each flag is what isActionEnabled answers for that action on
\* the new selection and state, under one outcome of the probes.
C17_AllFlagsRecomputed ==
    [][\E env \in ProbeEnvs :
          \A a \in Actions :
             flags'[a] = isActionEnabled(a, items, held, rec, env)']_vars

\* C17 witness: machine 2 changed and was then taken out of the selection,
\* which now holds the running, ACPI-ready machine 1 alone while a group
\* saving is in progress: Shutdown and Pause are enabled, Start-or-Show,
\* Move and Settings are not.
C17_Witness ==
    /\ items = <<1>>
    /\ rec[2] # DefaultRec
    /\ rec[1].state = "Running" /\ rec[1].acpi
    /\ groupSaving
    /\ flags["Shutdown"] /\ flags["Pause"]
    /\ ~flags["StartOrShow"] /\ ~flags["Move"] /\ ~flags["Settings"]

(***************************************************************************)
(* The batch handlers: the check before each item and the reports.         *)
(***************************************************************************)

\* The batch handlers that filter the selection by the per-item predicate.
FilteringActs == {"Discard", "Pause", "Reset", "SaveState", "Shutdown", "PowerOff"}

\* C18: a batch handler issues a remote operation on a machine only if, at
\* the moment the item is taken up, the per-item predicate of the handler's
\* action holds for that machine under some outcome of the probes.
C18_EvaluatorQueriedBeforeEachItem ==
    [][(act \in FilteringActs) =>
          (\A j \in 1 .. Len(NewLog) :
              NewLog[j].k = "op" =>
                 (\E env \in ProbeEnvs :
                     isActionEnabled(act, <<NewLog[j].m>>, held, rec, env)))
      ]_vars

\* C19: whenever a remote operation of a batch handler reports failure, an
\* error for that machine is reported right after it.
C19_EveryFailureReported ==
    \A i \in LogIdx :
       (log[i].k = "op" /\ ~log[i].ok) =>
          /\ i < Len(log)
          /\ log[i + 1].k = "report"
          /\ log[i + 1].m = log[i].m

\* The long-running operations and the reports of their failure.
LongOps == {"SaveState", "PowerDown", "MoveTo"}

LongOpReports == {"cannotSaveMachineState", "cannotPowerDownMachine", "cannotMoveMachine"}

\* The events of the running handler itself, without the notifications and
\* the probes of the refreshes that its modal dialogs let through.
IsHandlerEvent(e) ==
    /\ e.k # "notify"
    /\ e.k \in {"acquire", "release"} => e.who = "handler"

HandlerLog == SelectSeq(log, IsHandlerEvent)

\* C20: for save state, power down and move the handler waits for the
\* progress of an operation that started and reports a failure exactly when
\* the operation could not be started, or the finished progress is not ok,
\* or its result code is not zero; after a progress that is ok with result
\* code zero nothing is reported; in each case the session of the machine is
\* released next.
C20_LongRunningFailureReporting ==
    LET hl == HandlerLog
    IN
    /\ \A i \in 1 .. Len(hl) :
         (hl[i].k = "op" /\ hl[i].x \in LongOps /\ ~hl[i].ok) =>
            /\ i + 2 <= Len(hl)
            /\ hl[i + 1].k = "report" /\ hl[i + 1].m = hl[i].m
            /\ hl[i + 1].x \in LongOpReports
            /\ IsRel(hl[i + 2], "handler", hl[i].m)
    /\ \A i \in 1 .. Len(hl) :
         (hl[i].k = "op" /\ hl[i].x \in LongOps /\ hl[i].ok) =>
            IF i = Len(hl)
            THEN pc = "progress" /\ cur = hl[i].m /\ Handle(cur, "handler") \in held
            ELSE hl[i + 1].k = "progress" /\ hl[i + 1].m = hl[i].m
    /\ \A i \in 1 .. Len(hl) :
         hl[i].k = "progress" =>
            IF hl[i].isOk /\ hl[i].rc = 0
            THEN /\ i + 1 <= Len(hl)
                 /\ IsRel(hl[i + 1], "handler", hl[i].m)
            ELSE /\ i + 3 <= Len(hl)
                 /\ hl[i + 2].k = "report" /\ hl[i + 2].m = hl[i].m
                 /\ hl[i + 2].x \in LongOpReports
                 /\ IsRel(hl[i + 3], "handler", hl[i].m)
    /\ \A i \in 1 .. Len(hl) :
         (hl[i].k = "report" /\ hl[i].x \in LongOpReports) =>
            /\ i > 1
            /\ \/ hl[i - 1].k = "op" /\ hl[i - 1].x \in LongOps /\ ~hl[i - 1].ok
               \/ /\ hl[i - 1].k = "progressfail"
                  /\ i > 2
                  /\ hl[i - 2].k = "progress"
                  /\ ~hl[i - 2].isOk \/ hl[i - 2].rc # 0

\* C20 witness: power off of two machines; the first progress ended ok with
\* result code zero and nothing was reported, the second ended ok with a
\* result code that is not zero and was reported; both sessions were released.
C20_Witness ==
    /\ act = "PowerOff"
    /\ pc = "done"
    /\ LET hl == HandlerLog IN \E i, j \in 1 .. Len(hl) :
         /\ i < j
         /\ hl[i].k = "progress" /\ hl[i].m = 1
         /\ hl[i].isOk /\ hl[i].rc = 0
         /\ IsRel(hl[i + 1], "handler", 1)
         /\ hl[j].k = "progress" /\ hl[j].m = 2
         /\ hl[j].isOk /\ hl[j].rc # 0
         /\ hl[j + 2].k = "report"
         /\ IsRel(hl[j + 3], "handler", 2)

(***************************************************************************)
(* Completion of a confirmed batch.                                        *)
(***************************************************************************)

\* The machines the running handler has asked a session for.
Attempted == {log[i].m : i \in {j \in LogIdx : IsAcq(log[j], "handler")}}

Holders == {"handler", "probe"}

OneConfigurableItem ==
    /\ Len(items) = 1
    /\ rec[items[1]].accessible
    /\ configurationAccessLevel(rec[items[1]]) # "Null"

\* C23 as stated: Settings is enabled exactly when the selection is one
\* accessible item whose configuration access level is not Null and no
\* Settings dialog is open.
C23_SettingsByItemAndGuard ==
    flags["Settings"] <=> (OneConfigurableItem /\ ~opened["Settings"])

\* C23 as amended: Settings is enabled exactly when, in addition, no group
\* saving is in progress and the machine tool is not Snapshots or the
\* current state item is selected.
C23_SettingsEnablement ==
    /\ flags["Settings"] <=>
         (OneConfigurableItem /\ ~opened["Settings"] /\ ~groupSaving /\ toolOk)
    /\ \A env \in ProbeEnvs :
         isActionEnabled("Settings", items, held, rec, env) = flags["Settings"]

\* C23 witness: the settings dialog of the one selected, accessible machine
\* is open, no group saving is running and the tool condition is met:
\* Settings is disabled by its opened flag alone.
C23_Witness ==
    /\ OneConfigurableItem
    /\ ~groupSaving
    /\ toolOk
    /\ opened["Settings"]
    /\ flows = <<"Settings">>
    /\ ~flags["Settings"]

\* The selection is one item and that item is editable.
OneEditableItem ==
    /\ Len(items) = 1
    /\ rec[items[1]].accessible
    /\ rec[items[1]].editable

\* C24 as stated: Clone and Move are enabled exactly when the selection is one
\* editable item.
C24_CloneMoveByItemAlone ==
    \A a \in {"Clone", "Move"} : flags[a] <=> OneEditableItem

\* C24 as amended: Clone and Move are enabled exactly when the selection is
\* one editable item and no group saving is in progress; they are disabled
\* for two or more items and for one item that is not editable.
C24_CloneMoveEnablement ==
    \A a \in {"Clone", "Move"} :
       /\ flags[a] <=> (OneEditableItem /\ ~groupSaving)
       /\ Len(items) >= 2 => ~flags[a]
       /\ \A env \in ProbeEnvs :
            isActionEnabled(a, items, held, rec, env) = flags[a]

\* C24 witness: two editable machines are selected and no group saving is
\* running; Clone and Move are disabled by the size of the selection.
C24_Witness ==
    /\ items = <<1, 2>>
    /\ rec[1].editable /\ rec[2].editable
    /\ ~groupSaving
    /\ ~flags["Clone"] /\ ~flags["Move"]

\* Some selected item is inaccessible or editable.
SomeItemRemovable ==
    \E i \in 1 .. Len(items) :
       ~rec[items[i]].accessible \/ (rec[items[i]].accessible /\ rec[items[i]].editable)

\* C25 as stated: Remove is enabled exactly when some selected item is
\* inaccessible or editable.
C25_RemoveByItemsAlone ==
    flags["Remove"] <=> SomeItemRemovable

\* C25 as amended: Remove is enabled exactly when some selected item is
\* inaccessible or editable and no group saving is in progress.
C25_RemoveEnablement ==
    /\ flags["Remove"] <=> (SomeItemRemovable /\ ~groupSaving)
    /\ \A env \in ProbeEnvs :
         isActionEnabled("Remove", items, held, rec, env) = flags["Remove"]

\* C25 witness: of the two selected machines the first is running, hence not
\* editable, and the second is inaccessible; Remove is enabled.
C25_Witness ==
    /\ items = <<1, 2>>
    /\ rec[1].state = "Running"
    /\ ~rec[2].accessible
    /\ flags["Remove"]

\* Some selected item is saved and editable.
SomeItemDiscardable ==
    \E i \in 1 .. Len(items) :
       LET it == rec[items[i]]
       IN  it.accessible /\ it.state = "Saved" /\ it.editable

\* C26 as stated: Discard is enabled exactly when some selected item is saved
\* and editable.
C26_DiscardByItemsAlone ==
    flags["Discard"] <=> SomeItemDiscardable

\* C26 as amended: Discard is enabled exactly when some selected item is
\* saved and editable, no group saving is in progress and the machine tool
\* is not Snapshots or the current state item is selected.
C26_DiscardEnablement ==
    /\ flags["Discard"] <=> (SomeItemDiscardable /\ ~groupSaving /\ toolOk)
    /\ \A env \in ProbeEnvs :
         isActionEnabled("Discard", items, held, rec, env) = flags["Discard"]

\* C26 witness: a powered off machine and a saved, editable machine are
\* selected, in that order, and Discard is enabled.
C26_Witness ==
    /\ items = <<1, 2>>
    /\ rec[1].state = "PoweredOff"
    /\ rec[2].state = "Saved" /\ rec[2].editable
    /\ flags["Discard"]

\* The actions enabled by a started item alone.
StartedActs == {"Pause", "Close", "Detach", "SaveState", "PowerOff"}

\* Some selected item is started: accessible and neither powered off, saved,
\* aborted nor inaccessible.
SomeItemStarted ==
    \E i \in 1 .. Len(items) :
       LET it == rec[items[i]]
       IN  it.accessible /\ it.state \notin {"PoweredOff", "Saved", "Aborted", "Inaccessible"}

\* C27: the Pause/Resume toggle, the Close submenu and its Detach, SaveState
\* and PowerOff entries are each enabled exactly when some selected item is
\* started, whatever the group saving progress, the opened flags and the
\* current tool are.
C27_StartedActionsEnablement ==
    \A a \in StartedActs :
       /\ flags[a] <=> SomeItemStarted
       /\ \A env \in ProbeEnvs :
            isActionEnabled(a, items, held, rec, env) = flags[a]

\* C27 witness: the second of two selected machines is paused, the first is
\* powered off; a group saving is running, the tool condition is not met and
\* the preferences dialog is open, and all five actions are enabled.
C27_Witness ==
    /\ items = <<1, 2>>
    /\ rec[1].state = "PoweredOff"
    /\ rec[2].state = "Paused"
    /\ groupSaving
    /\ ~toolOk
    /\ opened["Preferences"]
    /\ \A a \in StartedActs : flags[a]

\* Some selected item is running.
SomeItemRunning ==
    \E i \in 1 .. Len(items) :
       LET it == rec[items[i]]
       IN  it.accessible /\ it.state \in {"Running", "Teleporting", "LiveSnapshotting"}

\* C28: Reset is enabled exactly when some selected item is running; a
\* selection of paused, saved and powered off items does not enable it.
C28_ResetEnablement ==
    /\ flags["Reset"] <=> SomeItemRunning
    /\ (\A i \in 1 .. Len(items) :
           rec[items[i]].state \in {"Paused", "Saved", "PoweredOff"}) => ~flags["Reset"]
    /\ \A env \in ProbeEnvs :
         isActionEnabled("Reset", items, held, rec, env) = flags["Reset"]

\* C28 witness: a paused, a saved and a powered off machine are selected;
\* Pause is enabled by the started machine and Reset is not.
C28_Witness ==
    /\ items = <<1, 2, 3>>
    /\ rec[1].state = "Paused"
    /\ rec[2].state = "Saved"
    /\ rec[3].state = "PoweredOff"
    /\ flags["Pause"]
    /\ ~flags["Reset"]

\* The first started item of the selection, in selection order, is paused.
FirstStartedItemIsPaused ==
    \E i \in 1 .. Len(items) :
       /\ rec[items[i]].accessible
       /\ rec[items[i]].state \in {"Paused", "TeleportingPausedVM"}
       /\ \A j \in 1 .. i - 1 :
            \/ ~rec[items[j]].accessible
            \/ rec[items[j]].state \in {"PoweredOff", "Saved", "Aborted", "Inaccessible"}

\* C29: after every refresh the Pause/Resume toggle is checked exactly when
\* the first started item in selection order is paused, and unchecked when no
\* item is started, whatever the later items are; the refresh that sets it
\* does not start the pause/resume handler or any other.  Here the refresh
\* is the one that follows a machine's change of state.
C29_ToggleFollowsFirstStartedItem ==
    [][(rec' # rec) =>
         /\ checked' = FirstStartedItemIsPaused'
         /\ UNCHANGED <<pc, act, todo>>]_vars

\* C29 witness: while a confirmation is shown a change of state was notified
\* and the actions refreshed; the first selected machine is running, the
\* second is paused, and the toggle is unchecked.
C29_Witness ==
    /\ pc = "confirm"
    /\ Notified(log) > 0
    /\ items = <<1, 2>>
    /\ rec[1].state = "Running"
    /\ rec[2].state = "Paused"
    /\ ~checked

\* C30: Reset, Shutdown, PowerOff and Discard request the confirmation only
\* with at least one machine name: no confirmation of the running handler
\* was asked for an empty filtered set.
C30_NoConfirmationOfEmptySet ==
    \A i \in LogIdx : log[i].k = "confirm" => log[i].names # <<>>

\* C31: the items of a batch are served one after the other: between two
\* sessions the running handler opened, the first one was released, so the
\* handler never has two sessions open at a time.
C31_BatchItemsSerialized ==
    \A i \in LogIdx, j \in LogIdx :
       (i < j /\ log[i].k = "acquire" /\ log[i].who = "handler" /\ log[i].x = "ok"
              /\ log[j].k = "acquire" /\ log[j].who = "handler") =>
         \E n \in LogIdx :
            /\ i < n /\ n < j
            /\ log[n].k = "release" /\ log[n].who = "handler" /\ log[n].m = log[i].m

\* C31 witness: a save state batch waited for the progress of machine 1,
\* released it, and then opened the session of machine 2.
C31_Witness ==
    /\ act = "SaveState"
    /\ \E i \in LogIdx, n \in LogIdx, j \in LogIdx :
         /\ i < n /\ n < j
         /\ log[i].k = "progress" /\ log[i].m = 1
         /\ log[n].k = "release" /\ log[n].who = "handler" /\ log[n].m = 1
         /\ log[j].k = "acquire" /\ log[j].who = "handler" /\ log[j].m = 2
         /\ log[j].x = "ok"

\* The states in which a machine counts as paused, and as resumed.
PausedStates == {"Paused", "TeleportingPausedVM"}

ResumedStates == {"Running", "Teleporting", "LiveSnapshotting"}

C33_SaveStatePausesFirst ==
    [][(pc = "items" /\ act = "SaveState" /\ todo # <<>> /\ NewLog # <<>>
          /\ NewLog[1].k = "acquire" /\ NewLog[1].x = "ok") =>
         LET m == Head(todo)
             new == NewLog
             ops == {i \in 1 .. Len(new) : new[i].k = "op"}
         IN  /\ Len(new) >= 2
             /\ new[2].k = "op"
             /\ rec[m].state # "Paused" =>
                  /\ new[2].x = "Pause"
                  /\ new[2].ok =>
                       (Len(new) >= 3 /\ new[3].k = "op" /\ new[3].x = "SaveState")
                  /\ ~new[2].ok =>
                       /\ ops = {2}
                       /\ new = <<new[1], new[2], ReportEv(m, "cannotPauseMachine"),
                                  RelEv(m, "handler")>>
                       /\ Handle(m, "handler") \notin held'
                       /\ todo' = Tail(todo)
                       /\ pc' = IF Tail(todo) = <<>> THEN "done" ELSE "items"
             /\ rec[m].state = "Paused" =>
                  /\ new[2].x = "SaveState"
                  /\ \A i \in ops : new[i].x # "Pause"
       ]_vars

\* C33 witness: in a save state batch the Pause of the running machine 1
\* failed and was reported, and machine 2, already paused, had SaveState
\* issued right after its session opened.
C33_Witness ==
    /\ act = "SaveState"
    /\ rec[1].state = "Running"
    /\ rec[2].state = "Paused"
    /\ \E i \in LogIdx :
         /\ log[i].k = "op" /\ log[i].m = 1 /\ log[i].x = "Pause" /\ ~log[i].ok
         /\ i + 4 <= Len(log)
         /\ log[i + 1] = ReportEv(1, "cannotPauseMachine")
         /\ log[i + 2] = RelEv(1, "handler")
         /\ log[i + 3].k = "acquire" /\ log[i + 3].m = 2 /\ log[i + 3].x = "ok"
         /\ log[i + 4].k = "op" /\ log[i + 4].m = 2 /\ log[i + 4].x = "SaveState"

\* The batch actions enabled by any one item of the selection.
AnyOfActs ==
    {"Pause", "Reset", "Discard", "SaveState", "PowerOff", "Shutdown",
     "ShowLogDialog", "ShowInFileManager", "CreateShortcut"}

\* With the flags, the machine states and the answers of the sessions the
\* same, an any-of action is enabled for the selection exactly when it is
\* enabled for one of its items alone.
AggregateIsAnyOf ==
    \A a \in AnyOfActs, env \in ProbeEnvs :
       isActionEnabled(a, items, held, rec, env)
         <=> \E i \in 1 .. Len(items) :
                isActionEnabled(a, <<items[i]>>, held, rec, env)

\* C34: an any-of action is enabled for the selection exactly when it is
\* enabled for at least one item alone; hence the handler of an action that
\* was enabled for the selection finds at least one eligible item.
C34_AnyOfAggregation ==
    /\ AggregateIsAnyOf
    /\ (pc # "idle" /\ act \in ConfirmActs) => elig # {}

\* performStartOrShowVirtualMachines applied to every selection, whether or
\* not the Start-or-Show action is enabled, with and without group saving.
NextStart ==
    \/ performStartOrShowVirtualMachines
    \/ StartConfirmAnswered
    \/ Return

SpecStart == Init /\ [][NextStart]_vars

\* C35: while group saving is in progress performStartOrShowVirtualMachines
\* does nothing, whatever the selection: it returns at once, no confirmation
\* is requested and no machine is launched or shown.
C35_NoStartWhileGroupSaving ==
    [][(pc = "idle" /\ act' = "Start" /\ groupSaving) =>
         /\ pc' = "done"
         /\ \A i \in 1 .. Len(log') : log'[i].k \notin {"confirm", "launch"}
         /\ UNCHANGED <<rec, items, held, flags, opened>>]_vars

\* C35 witness: called during group saving on two machines that can be
\* started, the function has returned with nothing asked and nothing launched.
C35_Witness ==
    /\ act = "Start"
    /\ pc = "done"
    /\ groupSaving
    /\ items = <<1, 2>>
    /\ rec[1].state = "PoweredOff" /\ rec[1].editable
    /\ rec[2].state = "PoweredOff" /\ rec[2].editable
    /\ log = <<>>

\* C38: Add machine registers a machine only when a file was chosen, the
\* file could be opened and no machine with its id is registered; when
\* nothing is chosen, the file cannot be opened or the machine is registered
\* already, the registry stays as it is, and the last two cases are reported;
\* the opened flag of AddMachine is cleared before any of this.
C38_AddMachineRegistersOnlyNewMachines ==
    [][/\ \A i \in 1 .. Len(NewLog) :
            LET e == NewLog[i]
                chosen == e.x # "nothing chosen"
            IN  e.k = "register" =>
                  /\ e.x = "RegisterMachine" <=>
                        (chosen /\ e.m # 0 /\ e.m \notin registered)
                  /\ registered' = IF e.x = "RegisterMachine"
                                    THEN registered \cup {e.m} ELSE registered
                  /\ (chosen /\ e.m = 0) => e.x = "cannotOpenMachine"
                  /\ (chosen /\ e.m \in registered) =>
                        e.x = "cannotReregisterExistingMachine"
                  /\ \E j \in 1 .. i - 1 : NewLog[j] = Ev("closed", 0, "AddMachine")
                  /\ ~opened'["AddMachine"]
       /\ registered' # registered =>
            \E i \in 1 .. Len(NewLog) :
               NewLog[i].k = "register" /\ NewLog[i].x = "RegisterMachine"
      ]_vars

\* C38 witness: the machine of file 1 is registered and a second request to
\* add file 1 was refused as a machine registered already.
C38_Witness ==
    /\ registered = {1}
    /\ \E i \in LogIdx : log[i] = Ev("register", 1, "cannotReregisterExistingMachine")

(***************************************************************************)
(* The windows that are not modal: log viewers and manager windows.        *)
(***************************************************************************)
\* The selection is one or two machines, each powered off or inaccessible.
InitWindows ==
    /\ InitWith(MaxBatch)
    /\ ~groupSaving
    /\ toolOk
    /\ \A m \in Machines : rec[m].state \in {"PoweredOff", "Inaccessible"} /\ ~(rec[m].accessible /\ ~rec[m].editable)

NextWindows ==
    \/ sltOpenLogViewerWindow
    \/ LogViewerDialogClosed
    \/ \E t \in WindowTools : sltHandleToolTypeChangeTo(t)
    \/ \E k \in ManagerTools : sltOpenManagerWindow(k)
    \/ \E k \in ManagerTools : ManagerWindowClosed(k)

SpecWindows == InitWindows /\ [][NextWindows]_vars

(***************************************************************************)
(* C36: the registry of log viewer dialogs holds at most one dialog per    *)
(* machine, and every dialog is removed from the registry before it is     *)
(* cleaned up, so that the call of sltCloseLogViewerWindow the cleanup     *)
(* incurs finds no entry: each dialog ever created is either in the        *)
(* registry under its machine and not cleaned up, or out of the registry   *)
(* and cleaned up exactly once, whether it was closed alone or with all.   *)
(***************************************************************************)
C36_LogViewerRegistry ==
    /\ \A m \in Machines :
          /\ Cardinality({d \in DialogIds : dialogs[d].machine = m /\ dialogs[d].cleaned = 0}) <= 1
          /\ m_logViewers[m] # 0 =>
                /\ dialogs[m_logViewers[m]].machine = m
                /\ dialogs[m_logViewers[m]].cleaned = 0
    /\ \A d \in DialogIds :
          dialogs[d].machine # 0 =>
             \/ m_logViewers[dialogs[d].machine] = d /\ dialogs[d].cleaned = 0
             \/ (\A m \in Machines : m_logViewers[m] # d) /\ dialogs[d].cleaned = 1

\* Two dialogs were closed by the change to the embedded log viewer, and a
\* third dialog was closed or is still to be created.
C36_Witness ==
    /\ "Logs" \in toolOpened
    /\ \A m \in Machines : m_logViewers[m] = 0
    /\ \E d1, d2 \in DialogIds :
          /\ d1 # d2
          /\ dialogs[d1].cleaned = 1
          /\ dialogs[d2].cleaned = 1
          /\ dialogs[d1].machine # dialogs[d2].machine

(***************************************************************************)
(* C37: a manager tool is never open in both forms at once: for the        *)
(* Virtual Media, Host Network and Cloud Profile managers the embedded     *)
(* global tool and the separate window are never open together, and at     *)
(* most one separate window of each manager exists.                        *)
(***************************************************************************)
C37_ManagerNeverInBothForms ==
    \A k \in ManagerTools :
       /\ ~(k \in toolOpened /\ m_pManager[k])
       /\ live[k] <= 1
       /\ m_pManager[k] <=> live[k] = 1

\* One manager is open the embedded way after its window was open, while
\* another manager has its window.
C37_Witness ==
    \E k1, k2 \in ManagerTools :
       /\ k1 \in toolOpened /\ ~m_pManager[k1] /\ live[k1] = 0
       /\ k2 \notin toolOpened /\ m_pManager[k2] /\ live[k2] = 1

=============================================================================
